---- MODULE Spec2Model ----
(***************************************************************************)
(* Verification model of carefree-data's tabular DataSplitter              *)
(* (src/cfdata/tabular/utils.py) and of TabularData.split                  *)
(* (src/cfdata/tabular/wrapper.py).                                        *)
(*                                                                         *)
(* Row indices are the numpy indices 0 .. N-1; an index array is a TLA+    *)
(* sequence of such indices.  A dataset is represented by its label column *)
(* y (read by the classification policy) and its time column (read by the  *)
(* time series policy); a returned dataset is represented by the sequence  *)
(* of row indices it was gathered with.                                    *)
(***************************************************************************)
EXTENDS Integers, Sequences, FiniteSets, TLC

VARIABLES splitter, call, result, drawn, tabular, parts

\* the outcome of the last split_multiple call
VARIABLES multi

\* a chain of processors, and the outcome of the last dumps_ / loads
VARIABLES chain, loaded

\* a TabularData that reads (fits) a raw dataset, and the outcome of the last
\* transform / recover_labels on it
VARIABLES data, out

\* what a caller holds: the index arrays of a SplitResult it has kept, and the
\* array it gave to the last process / recover of a processor
VARIABLES held, arrays

vars == <<splitter, call, result, drawn, tabular, parts, multi, chain, loaded,
          data, out, held, arrays>>

splitterVars == <<splitter, call, result, drawn>>

tabularVars == <<tabular, parts>>

multipleVars == <<multi>>

processorVars == <<chain, loaded>>

dataVars == <<data, out>>

callerVars == <<held, arrays>>

\* no SplitResult kept yet
NoHeld ==
    [status |-> "none",
     returned |-> [corresponding_indices |-> <<>>, remaining_indices |-> <<>>],
     corresponding_indices |-> <<>>, remaining_indices |-> <<>>,
     corresponding_shares |-> FALSE, remaining_shares |-> FALSE]

\* no process / recover called yet
NoArrays ==
    [op |-> "none", inplace |-> FALSE, given |-> <<>>, columns |-> <<>>,
     returned |-> <<>>]

(***************************************************************************)
(* Bounds of the model.                                                    *)
(***************************************************************************)
MaxRows == 3
MaxLabels == 2
MaxTimes == 3
MaxSplits == 3
MaxStratRows == 13
MaxStratLabels == 7
MaxTabularRows == 4

(***************************************************************************)
(* numpy / python helpers                                                  *)
(***************************************************************************)
Min(a, b) == IF a <= b THEN a ELSE b

Max(a, b) == IF a >= b THEN a ELSE b

Abs(a) == IF a >= 0 THEN a ELSE -a

Sign(a) == IF a > 0 THEN 1 ELSE IF a < 0 THEN -1 ELSE 0

Range(seq) == {seq[i] : i \in 1..Len(seq)}

RECURSIVE SumSeq(_)
SumSeq(seq) == IF seq = <<>> THEN 0 ELSE Head(seq) + SumSeq(Tail(seq))

\* np.arange(n)
Arange(n) == [i \in 1..n |-> i - 1]

\* arr[::-1]
Reverse(arr) == [i \in 1..Len(arr) |-> arr[Len(arr) + 1 - i]]

\* arr[start:] with a python start index (negative counts from the end)
SliceFrom(arr, start) ==
    LET len == Len(arr)
        lo  == IF start >= 0 THEN Min(start, len) ELSE Max(len + start, 0)
    IN  SubSeq(arr, lo + 1, len)

\* arr[:stop] with a python stop index (negative counts from the end)
SliceTo(arr, stop) ==
    LET len == Len(arr)
        hi  == IF stop >= 0 THEN Min(stop, len) ELSE Max(len + stop, 0)
    IN  SubSeq(arr, 1, hi)

\* arr[-k:]  (k = 0 gives the whole array, as -0 == 0)
TailSlice(arr, k) == SliceFrom(arr, -k)

\* np.cumsum
Cumsum(seq) == [i \in 1..Len(seq) |-> SumSeq(SubSeq(seq, 1, i))]

\* np.hstack over a list of index arrays
RECURSIVE HStack(_)
HStack(list) == IF list = <<>> THEN <<>> ELSE Head(list) \o HStack(Tail(list))

\* a draw with replacement in place of a shuffle: elements can repeat
Shuffle_WithRepeats(arr) ==
    {[i \in 1..Len(arr) |-> arr[f[i]]] : f \in [1..Len(arr) -> 1..Len(arr)]}

\* every order np.random.shuffle / np.random.permutation can leave an array in
Shuffle(arr) ==
    {[i \in 1..Len(arr) |-> arr[p[i]]] : p \in Permutations(1..Len(arr))}

\* tuple(map(np.random.shuffle, list)): each array shuffled on its own
RECURSIVE ShuffleEach(_)
ShuffleEach(list) ==
    IF list = <<>> THEN {<<>>}
    ELSE {<<h>> \o t : h \in Shuffle(Head(list)), t \in ShuffleEach(Tail(list))}

\* np.round of the non-negative quotient num / den: round half to even
Round(num, den) ==
    LET q == num \div den
        r == num % den
    IN  IF 2 * r < den THEN q
        ELSE IF 2 * r > den THEN q + 1
        ELSE IF q % 2 = 0 THEN q ELSE q + 1

\* ceil of the positive quotient num / den
Ceil(num, den) == (num + den - 1) \div den

RECURSIVE SortedSeq(_)
SortedSeq(S) ==
    IF S = {} THEN <<>>
    ELSE LET m == CHOOSE x \in S : \A z \in S : x <= z
         IN  <<m>> \o SortedSeq(S \ {m})

\* cftool.misc.get_unique_indices: the sorted unique values of a column, their
\* counts, and per unique value the row indices holding it (ascending, as the
\* underlying argsort is stable)
GetUniqueIndices(column) ==
    LET unique == SortedSeq(Range(column))
        split  == [u \in 1..Len(unique) |->
                     SelectSeq(Arange(Len(column)),
                               LAMBDA i : column[i + 1] = unique[u])]
    IN  [unique |-> unique,
         counts |-> [u \in 1..Len(unique) |-> Len(split[u])],
         split_indices |-> split]

(***************************************************************************)
(* A requested size n is the number num / den: an integer count (den = 1)  *)
(* or a fraction below 1.                                                  *)
(***************************************************************************)
Count(k) == [num |-> k, den |-> 1]

Fraction(a, b) == [num |-> a, den |-> b]

\* n >= k for an integer k
NGeq(n, k) == n.num >= k * n.den

\* n < 1.
NBelowOne(n) == n.num < n.den

\* int(len(self._x) * n) for a fraction n, n itself for a count
ToCount(n, nData) == IF NBelowOne(n) THEN (nData * n.num) \div n.den ELSE n.num

(***************************************************************************)
(* DataSplitter: python None is modelled by listing the attribute in the   *)
(* field "none" (the attribute's own field then holds a placeholder).      *)
(***************************************************************************)
IsNone(self, attr) == attr \in self.none

\* DataSplitter.__init__
NewSplitter(timeSeries, shuffle, replace) ==
    [none |-> {"remained_indices", "time_indices_list", "time_indices_list_in_use",
               "label_indices_list", "label_indices_list_in_use", "time_column"},
     is_time_series |-> timeSeries,
     shuffle |-> shuffle,
     replace |-> replace,
     fitted |-> FALSE,
     is_regression |-> FALSE,
     n_data |-> 0,
     y |-> <<>>,
     time_column |-> <<>>,
     remained_indices |-> <<>>,
     label_indices_list |-> <<>>,
     label_indices_list_in_use |-> <<>>,
     label_counts |-> <<>>,
     n_samples |-> 0,
     n_unique_labels |-> 0,
     time_indices_list |-> <<>>,
     time_indices_list_in_use |-> <<>>,
     times_counts_cumsum |-> <<>>,
     times_counts_cumsum_in_use |-> <<>>,
     sorting_indices |-> <<>>]

\* outcome of a method that returns normally / that raises
Returned(self) == [status |-> "ok", self |-> self]

Raised(self, error) == [status |-> error, self |-> self]

\* a time_series_config: None, or a dict that gives or lacks each of
\* "id_column" and "time_column"
NoTimeSeries == [is_none |-> TRUE, id_column |-> FALSE, time_column |-> FALSE]

TimeSeriesConfig(id_column, time_column) ==
    [is_none |-> FALSE, id_column |-> id_column, time_column |-> time_column]

\* a constructor that takes replace=True with a time series configuration
init_ReplaceUnchecked(time_series_config, shuffle, replace) ==
    LET self == NewSplitter(~time_series_config.is_none, shuffle, replace)
    IN  IF time_series_config.is_none THEN Returned(self)
        ELSE IF ~time_series_config.id_column THEN Raised(self, "NoIdColumn")
        ELSE IF ~time_series_config.time_column THEN Raised(self, "NoTimeColumn")
        ELSE Returned(self)

\* DataSplitter.__init__ with the checks of its arguments
init(time_series_config, shuffle, replace) ==
    LET self == NewSplitter(~time_series_config.is_none, shuffle, replace)
    IN  IF time_series_config.is_none THEN Returned(self)
        ELSE IF replace THEN Raised(self, "ReplaceWithTimeSeries")
        ELSE IF ~time_series_config.id_column THEN Raised(self, "NoIdColumn")
        ELSE IF ~time_series_config.time_column THEN Raised(self, "NoTimeColumn")
        ELSE Returned(self)

\* DataSplitter.remained_indices (property)
remained_indices(self) == Reverse(self.remained_indices)

\* DataSplitter.remained_xy: the rows the returned x, y hold
remained_xy(self) == remained_indices(self)

\* _reset_reg with the unshuffled pool in descending order
reset_reg_Descending(self) ==
    {Returned([self EXCEPT !.remained_indices = r,
                           !.none = @ \ {"remained_indices"}]) :
        r \in IF self.shuffle THEN Shuffle(Arange(self.n_data))
              ELSE {Reverse(Arange(self.n_data))}}

\* DataSplitter._reset_reg
reset_reg(self) ==
    {Returned([self EXCEPT !.remained_indices = r,
                           !.none = @ \ {"remained_indices"}]) :
        r \in IF self.shuffle THEN Shuffle(Arange(self.n_data))
              ELSE {Arange(self.n_data)}}

\* DataSplitter._reset_indices_list: the orders the (shuffled in place) list
\* can take; the in-use list is a copy of it
reset_indices_list(list, shuffle) == IF shuffle THEN ShuffleEach(list) ELSE {list}

\* DataSplitter._reset_clf
reset_clf(self) ==
    LET unique_indices == GetUniqueIndices(self.y)
        first == IsNone(self, "label_indices_list")
        s1 == IF first
              THEN [self EXCEPT !.label_indices_list = unique_indices.split_indices,
                                !.none = @ \ {"label_indices_list"},
                                !.label_counts = unique_indices.counts,
                                !.n_samples = Len(self.y),
                                !.n_unique_labels = Len(unique_indices.unique)]
              ELSE self
    IN  IF first /\ s1.n_unique_labels = 1
        THEN {Raised(s1, "InvalidData")}
        ELSE {Returned([s1 EXCEPT !.label_indices_list = l,
                                  !.label_indices_list_in_use = l,
                                  !.remained_indices = HStack(l),
                                  !.none = @ \ {"label_indices_list_in_use",
                                                "remained_indices"}]) :
                 l \in reset_indices_list(s1.label_indices_list, self.shuffle)}

\* _reset_time_series without the fresh copy of the cumulative counts once
\* the time -> indices mapping has been gathered
reset_time_series_CumsumKept(self) ==
    LET unique_indices == GetUniqueIndices(self.time_column)
        first == IsNone(self, "time_indices_list")
        s1 == IF first
              THEN [self EXCEPT !.time_indices_list = Reverse(unique_indices.split_indices),
                                !.none = @ \ {"time_indices_list"},
                                !.times_counts_cumsum = Cumsum(Reverse(unique_indices.counts)),
                                !.sorting_indices = HStack(unique_indices.split_indices)]
              ELSE self
    IN  IF first /\ s1.times_counts_cumsum[Len(s1.times_counts_cumsum)] # Len(self.time_column)
        THEN {Raised(s1, "AssertionError")}
        ELSE {Returned([s1 EXCEPT !.time_indices_list = l,
                                  !.time_indices_list_in_use = l,
                                  !.remained_indices = HStack(l),
                                  !.times_counts_cumsum_in_use =
                                      IF first THEN s1.times_counts_cumsum ELSE @,
                                  !.none = @ \ {"time_indices_list_in_use",
                                                "remained_indices"}]) :
                 l \in reset_indices_list(s1.time_indices_list, self.shuffle)}

\* DataSplitter._reset_time_series
reset_time_series(self) ==
    LET unique_indices == GetUniqueIndices(self.time_column)
        first == IsNone(self, "time_indices_list")
        s1 == IF first
              THEN [self EXCEPT !.time_indices_list = Reverse(unique_indices.split_indices),
                                !.none = @ \ {"time_indices_list"},
                                !.times_counts_cumsum = Cumsum(Reverse(unique_indices.counts)),
                                !.sorting_indices = HStack(unique_indices.split_indices)]
              ELSE self
    IN  IF first /\ s1.times_counts_cumsum[Len(s1.times_counts_cumsum)] # Len(self.time_column)
        THEN {Raised(s1, "AssertionError")}
        ELSE {Returned([s1 EXCEPT !.time_indices_list = l,
                                  !.time_indices_list_in_use = l,
                                  !.remained_indices = HStack(l),
                                  !.times_counts_cumsum_in_use = s1.times_counts_cumsum,
                                  !.none = @ \ {"time_indices_list_in_use",
                                                "remained_indices"}]) :
                 l \in reset_indices_list(s1.time_indices_list, self.shuffle)}

\* DataSplitter.reset
reset(self) ==
    IF ~IsNone(self, "time_column") THEN reset_time_series(self)
    ELSE IF self.is_regression THEN reset_reg(self)
    ELSE reset_clf(self)

\* DataSplitter.fit: dataset = [is_regression, y, time_column]
fit(self, dataset) ==
    LET s1 == [self EXCEPT !.fitted = TRUE,
                           !.is_regression = dataset.is_regression,
                           !.n_data = Len(dataset.y),
                           !.y = dataset.y]
        s2 == IF ~self.is_time_series
              THEN [s1 EXCEPT !.none = @ \cup {"time_column"}, !.time_column = <<>>]
              ELSE [s1 EXCEPT !.none = @ \ {"time_column"},
                              !.time_column = dataset.time_column]
    IN  reset(s2)

\* outcome of a split method: the target indices it returns, or the error raised
SplitReturned(self, tgt_indices) ==
    [status |-> "ok", self |-> self, tgt_indices |-> tgt_indices]

SplitRaised(self, error) ==
    [status |-> error, self |-> self, tgt_indices |-> <<>>]

\* _split_reg with the pool left as it is after a draw without replacement
split_reg_NoShrink(self, n) ==
    LET pool == self.remained_indices
    IN  IF self.replace
        THEN {SplitReturned([self EXCEPT !.remained_indices = r], TailSlice(r, n)) :
                 r \in Shuffle(pool)}
        ELSE {SplitReturned(self, TailSlice(pool, n))}

\* DataSplitter._split_reg; tgt_indices is a view of the pool's buffer, so an
\* in-place shuffle of the pool shows through it
split_reg(self, n) ==
    LET pool == self.remained_indices
        n2   == Min(n, Len(pool) - 1)
    IN  IF self.replace
        THEN {SplitReturned([self EXCEPT !.remained_indices = r], TailSlice(r, n)) :
                 r \in Shuffle(pool)}
        ELSE IF n2 > 0
        THEN {SplitReturned([self EXCEPT !.remained_indices = SliceTo(pool, -n2)],
                            TailSlice(pool, n))}
        ELSE {SplitReturned(self, TailSlice(pool, n))}

\* the rounding correction with every label adjustable, also those whose
\* target count is 1
n_samples_per_label_AllAdjustable(label_counts, n_samples, n) ==
    LET n_unique_labels == Len(label_counts)
        rounded == [l \in 1..n_unique_labels |->
                      Max(1, Round(n * label_counts[l], n_samples))]
        exceeded == SumSeq(rounded) - n
        sign == Sign(exceeded)
        n_samples_exceeded == Abs(exceeded)
        adjustable == [l \in 1..n_unique_labels |-> l]
        n_chosen_indices == Len(adjustable)
        n_tile == Ceil(n_samples_exceeded, n_chosen_indices)
        n_proceeded == (n_tile - 1) * n_chosen_indices
        Adjusted(chosen_indices) ==
            LET last == Range(SliceTo(chosen_indices, n_samples_exceeded - n_proceeded))
            IN  [l \in 1..n_unique_labels |->
                   rounded[l]
                   - (IF l \in Range(chosen_indices) THEN sign * (n_tile - 1) ELSE 0)
                   - (IF l \in last THEN sign ELSE 0)]
    IN  IF exceeded = 0 THEN {[status |-> "ok", value |-> rounded]}
        ELSE {LET value == Adjusted(chosen_indices)
              IN  [status |-> IF SumSeq(value) = n THEN "ok" ELSE "AssertionError",
                   value |-> value] :
                 chosen_indices \in Shuffle(adjustable)}

\* the rounding correction of DataSplitter._split_clf: every value the
\* per-label target counts can take for a requested n, one per order the
\* adjustable labels can be shuffled into
n_samples_per_label(label_counts, n_samples, n) ==
    LET n_unique_labels == Len(label_counts)
        rounded == [l \in 1..n_unique_labels |->
                      Max(1, Round(n * label_counts[l], n_samples))]
        exceeded == SumSeq(rounded) - n
        sign == Sign(exceeded)
        n_samples_exceeded == Abs(exceeded)
        adjustable == SelectSeq([l \in 1..n_unique_labels |-> l],
                                LAMBDA l : rounded[l] # 1)
        n_chosen_indices == Len(adjustable)
        n_tile == Ceil(n_samples_exceeded, n_chosen_indices)
        n_proceeded == (n_tile - 1) * n_chosen_indices
        Adjusted(chosen_indices) ==
            LET last == Range(SliceTo(chosen_indices, n_samples_exceeded - n_proceeded))
            IN  [l \in 1..n_unique_labels |->
                   rounded[l]
                   - (IF l \in Range(chosen_indices) THEN sign * (n_tile - 1) ELSE 0)
                   - (IF l \in last THEN sign ELSE 0)]
    IN  IF exceeded = 0 THEN {[status |-> "ok", value |-> rounded]}
        ELSE IF n_chosen_indices = 0
        THEN {[status |-> "OverflowError", value |-> rounded]}
        ELSE {LET value == Adjusted(chosen_indices)
              IN  [status |-> IF SumSeq(value) = n THEN "ok" ELSE "AssertionError",
                   value |-> value] :
                 chosen_indices \in Shuffle(adjustable)}

\* a deletion that takes one element more than asked
DeleteLast_OneMore(arr, k) == IF k > 0 THEN SubSeq(arr, 1, Len(arr) - k - 1) ELSE arr

\* np.delete(arr, np.arange(len(arr) - k, len(arr)))
DeleteLast(arr, k) == IF k > 0 THEN SubSeq(arr, 1, Len(arr) - k) ELSE arr

\* _split_clf without the check of n against the number of unique labels
split_clf_Unchecked(self, n) ==
    UNION {
        IF target.status # "ok" THEN {SplitRaised(self, target.status)}
        ELSE
        LET in_use == self.label_indices_list_in_use
            labels == 1..Len(in_use)
            tgt_indices == HStack([l \in labels |-> TailSlice(in_use[l], target.value[l])])
            kept(l) == target.value[l] >= Len(in_use[l]) - 1
            n_overlap == SumSeq([l \in labels |-> IF kept(l) THEN target.value[l] ELSE 0])
            popped == [l \in labels |->
                         IF kept(l) THEN in_use[l]
                         ELSE DeleteLast(in_use[l], target.value[l])]
            remain_indices == HStack(popped)
        IN  IF self.replace
            THEN {SplitReturned([self EXCEPT !.label_indices_list_in_use = shuffled,
                                             !.remained_indices = HStack(shuffled)],
                                tgt_indices) :
                     shuffled \in ShuffleEach(in_use)}
            ELSE IF Cardinality(Range(tgt_indices) \cap Range(remain_indices)) > n_overlap
            THEN {SplitRaised([self EXCEPT !.label_indices_list_in_use = popped],
                              "AssertionError")}
            ELSE {SplitReturned([self EXCEPT !.label_indices_list_in_use = popped,
                                             !.remained_indices = remain_indices],
                                tgt_indices)}
        : target \in n_samples_per_label(self.label_counts, self.n_samples, n)}

\* DataSplitter._split_clf
split_clf(self, n) ==
    IF n < self.n_unique_labels THEN {SplitRaised(self, "InsufficientLabels")}
    ELSE UNION {
        IF target.status # "ok" THEN {SplitRaised(self, target.status)}
        ELSE
        LET in_use == self.label_indices_list_in_use
            labels == 1..Len(in_use)
            tgt_indices == HStack([l \in labels |-> TailSlice(in_use[l], target.value[l])])
            kept(l) == target.value[l] >= Len(in_use[l]) - 1
            n_overlap == SumSeq([l \in labels |-> IF kept(l) THEN target.value[l] ELSE 0])
            popped == [l \in labels |->
                         IF kept(l) THEN in_use[l]
                         ELSE DeleteLast(in_use[l], target.value[l])]
            remain_indices == HStack(popped)
        IN  IF self.replace
            THEN {SplitReturned([self EXCEPT !.label_indices_list_in_use = shuffled,
                                             !.remained_indices = HStack(shuffled)],
                                tgt_indices) :
                     shuffled \in ShuffleEach(in_use)}
            ELSE IF Cardinality(Range(tgt_indices) \cap Range(remain_indices)) > n_overlap
            THEN {SplitRaised([self EXCEPT !.label_indices_list_in_use = popped],
                              "AssertionError")}
            ELSE {SplitReturned([self EXCEPT !.label_indices_list_in_use = popped,
                                             !.remained_indices = remain_indices],
                                tgt_indices)}
        : target \in n_samples_per_label(self.label_counts, self.n_samples, n)}

\* np.argmax over a boolean array: the first (0-based) position holding True,
\* 0 when there is none
Argmax(flags) ==
    IF \E i \in 1..Len(flags) : flags[i]
    THEN (CHOOSE i \in 1..Len(flags) : flags[i] /\ \A j \in 1..(i - 1) : ~flags[j]) - 1
    ELSE 0

\* _split_time_series returning the drawn indices as gathered, most recent first
split_time_series_AsGathered(self, n) ==
    LET cumsum == self.times_counts_cumsum_in_use
        in_use == self.time_indices_list_in_use
        split_arg == Argmax([i \in 1..Len(cumsum) |-> cumsum[i] >= n])
        n_left == cumsum[split_arg + 1] - n
        n_res == IF split_arg = 0 THEN n ELSE n - cumsum[split_arg]
        selected == IF split_arg = 0 THEN <<>> ELSE SubSeq(in_use, 1, split_arg)
        in_use1 == IF split_arg = 0 THEN in_use ELSE SubSeq(in_use, split_arg + 1, Len(in_use))
        cumsum1 == IF split_arg = 0 THEN cumsum ELSE SubSeq(cumsum, split_arg + 1, Len(cumsum))
        selected_indices == Append(selected, SliceTo(in_use1[1], n_res))
        in_use2 == IF n_left > 0
                   THEN [in_use1 EXCEPT ![1] = SliceFrom(in_use1[1], n_res)]
                   ELSE Tail(in_use1)
        cumsum2 == IF n_left > 0 THEN cumsum1 ELSE Tail(cumsum1)
        tgt_indices == HStack(selected_indices)
    IN  IF cumsum = <<>> THEN {SplitRaised(self, "ValueError")}
        ELSE IF in_use2 = <<>>
        THEN {SplitRaised([self EXCEPT !.time_indices_list_in_use = in_use2,
                                       !.times_counts_cumsum_in_use = cumsum2],
                          "ValueError")}
        ELSE {SplitReturned(
                 [self EXCEPT !.time_indices_list_in_use = in_use2,
                              !.remained_indices = HStack(in_use2),
                              !.times_counts_cumsum_in_use =
                                  [i \in 1..Len(cumsum2) |-> cumsum2[i] - n]],
                 tgt_indices)}

\* DataSplitter._split_time_series
split_time_series(self, n) ==
    LET cumsum == self.times_counts_cumsum_in_use
        in_use == self.time_indices_list_in_use
        split_arg == Argmax([i \in 1..Len(cumsum) |-> cumsum[i] >= n])
        n_left == cumsum[split_arg + 1] - n
        n_res == IF split_arg = 0 THEN n ELSE n - cumsum[split_arg]
        selected == IF split_arg = 0 THEN <<>> ELSE SubSeq(in_use, 1, split_arg)
        in_use1 == IF split_arg = 0 THEN in_use ELSE SubSeq(in_use, split_arg + 1, Len(in_use))
        cumsum1 == IF split_arg = 0 THEN cumsum ELSE SubSeq(cumsum, split_arg + 1, Len(cumsum))
        selected_indices == Append(selected, SliceTo(in_use1[1], n_res))
        in_use2 == IF n_left > 0
                   THEN [in_use1 EXCEPT ![1] = SliceFrom(in_use1[1], n_res)]
                   ELSE Tail(in_use1)
        cumsum2 == IF n_left > 0 THEN cumsum1 ELSE Tail(cumsum1)
        tgt_indices == HStack(selected_indices)
    IN  IF cumsum = <<>> THEN {SplitRaised(self, "ValueError")}
        ELSE IF in_use2 = <<>>
        THEN {SplitRaised([self EXCEPT !.time_indices_list_in_use = in_use2,
                                       !.times_counts_cumsum_in_use = cumsum2],
                          "ValueError")}
        ELSE {SplitReturned(
                 [self EXCEPT !.time_indices_list_in_use = in_use2,
                              !.remained_indices = HStack(in_use2),
                              !.times_counts_cumsum_in_use =
                                  [i \in 1..Len(cumsum2) |-> cumsum2[i] - n]],
                 Reverse(tgt_indices))}

\* what a call of split leaves behind: the splitter, and the SplitResult
\* returned (or the error raised)
SplitResult(self, dataset, corresponding_indices, remaining_indices) ==
    [status |-> "ok", self |-> self, dataset |-> dataset,
     corresponding_indices |-> corresponding_indices,
     remaining_indices |-> remaining_indices]

NoResult(self, status) ==
    [status |-> status, self |-> self, dataset |-> <<>>,
     corresponding_indices |-> <<>>, remaining_indices |-> <<>>]

\* what the caller sees of a call: the status and the SplitResult
Outcome(o) ==
    [status |-> o.status, dataset |-> o.dataset,
     corresponding_indices |-> o.corresponding_indices,
     remaining_indices |-> o.remaining_indices]

\* split with the assertion on the number of target indices compiled away
split_Unasserted(self, n) ==
    IF self.is_regression /\ IsNone(self, "remained_indices")
    THEN {NoResult(self, "NotReset")}
    ELSE IF ~self.is_regression /\ IsNone(self, "label_indices_list_in_use")
    THEN {NoResult(self, "NotReset")}
    ELSE IF NGeq(n, Len(self.remained_indices))
    THEN {SplitResult(self, remained_xy(self), self.remained_indices, <<>>)}
    ELSE
    LET count == ToCount(n, self.n_data)
        outcomes == IF self.is_time_series THEN split_time_series(self, count)
                    ELSE IF self.is_regression THEN split_reg(self, count)
                    ELSE split_clf(self, count)
    IN  {IF o.status # "ok" THEN NoResult(o.self, o.status)
         ELSE SplitResult(o.self, o.tgt_indices, o.tgt_indices, o.self.remained_indices) :
            o \in outcomes}

\* DataSplitter.split
split(self, n) ==
    IF self.is_regression /\ IsNone(self, "remained_indices")
    THEN {NoResult(self, "NotReset")}
    ELSE IF ~self.is_regression /\ IsNone(self, "label_indices_list_in_use")
    THEN {NoResult(self, "NotReset")}
    ELSE IF NGeq(n, Len(self.remained_indices))
    THEN {SplitResult(self, remained_xy(self), self.remained_indices, <<>>)}
    ELSE
    LET count == ToCount(n, self.n_data)
        outcomes == IF self.is_time_series THEN split_time_series(self, count)
                    ELSE IF self.is_regression THEN split_reg(self, count)
                    ELSE split_clf(self, count)
    IN  {IF o.status # "ok" THEN NoResult(o.self, o.status)
         ELSE IF Len(o.tgt_indices) # count THEN NoResult(o.self, "AssertionError")
         ELSE SplitResult(o.self, o.tgt_indices, o.tgt_indices, o.self.remained_indices) :
            o \in outcomes}

\* n <= 1.
NLeqOne(n) == n.num <= n.den

\* the sum of two sizes, and python's sum over a list of them
NPlus(a, b) == [num |-> a.num * b.den + b.num * a.den, den |-> a.den * b.den]

RECURSIVE NSum(_)
NSum(n_list) == IF n_list = <<>> THEN Count(0) ELSE NPlus(Head(n_list), NSum(Tail(n_list)))

\* int(n_total * ratio) for a non-negative ratio
IntOf(n_total, ratio) == (n_total * ratio.num) \div ratio.den

\* what a call of split_multiple leaves behind: the splitter, and the list of
\* SplitResults returned (or the error raised)
MultipleResult(self, status, results) ==
    [status |-> status, self |-> self, results |-> results]

\* list(map(self.split, n_list)): the splits run in order on the splitter the
\* previous one left, and the first one that raises ends the call
RECURSIVE map_split(_, _)
map_split(self, n_list) ==
    IF n_list = <<>> THEN {MultipleResult(self, "ok", <<>>)}
    ELSE UNION {
        IF o.status # "ok" THEN {MultipleResult(o.self, o.status, <<>>)}
        ELSE {IF rest.status # "ok" THEN rest
              ELSE MultipleResult(rest.self, "ok", <<Outcome(o)>> \o rest.results) :
                 rest \in map_split(o.self, Tail(n_list))}
        : o \in split(self, Head(n_list))}

\* split_multiple without the check of fractions that sum to 1 against
\* return_remained
split_multiple_RemainedUnchecked(self, n_list, return_remained) ==
    LET n_total == self.n_data
        last == Len(n_list)
    IN  IF ~(\A k \in 1..last : NLeqOne(n_list[k]))
        THEN IF \E k \in 1..last : NBelowOne(n_list[k])
             THEN {MultipleResult(self, "SomeButNotAllBelowOne", <<>>)}
             ELSE map_split(self,
                            IF return_remained
                            THEN Append(n_list, Count(n_total - NSum(n_list).num))
                            ELSE n_list)
        ELSE
        LET ratio_sum == NSum(n_list)
            n_selected == IntOf(n_total, ratio_sum)
            heads == [k \in 1..(last - 1) |-> Count(IntOf(n_total, n_list[k]))]
            counts == Append(heads, Count(n_selected - NSum(heads).num))
        IN  IF ratio_sum.num > ratio_sum.den
            THEN {MultipleResult(self, "SumAboveOne", <<>>)}
            ELSE map_split(self,
                           IF ratio_sum.num < ratio_sum.den
                           THEN Append(counts, Count(n_total - n_selected))
                           ELSE counts)

\* DataSplitter.split_multiple, for a non-empty n_list
split_multiple(self, n_list, return_remained) ==
    LET n_total == self.n_data
        last == Len(n_list)
    IN  IF ~(\A k \in 1..last : NLeqOne(n_list[k]))
        THEN IF \E k \in 1..last : NBelowOne(n_list[k])
             THEN {MultipleResult(self, "SomeButNotAllBelowOne", <<>>)}
             ELSE map_split(self,
                            IF return_remained
                            THEN Append(n_list, Count(n_total - NSum(n_list).num))
                            ELSE n_list)
        ELSE
        LET ratio_sum == NSum(n_list)
            n_selected == IntOf(n_total, ratio_sum)
            heads == [k \in 1..(last - 1) |-> Count(IntOf(n_total, n_list[k]))]
            counts == Append(heads, Count(n_selected - NSum(heads).num))
        IN  IF ratio_sum.num > ratio_sum.den
            THEN {MultipleResult(self, "SumAboveOne", <<>>)}
            ELSE IF return_remained /\ ratio_sum.num = ratio_sum.den
            THEN {MultipleResult(self, "SumIsOneWithRemained", <<>>)}
            ELSE map_split(self,
                           IF ratio_sum.num < ratio_sum.den
                           THEN Append(counts, Count(n_total - n_selected))
                           ELSE counts)

(***************************************************************************)
(* TabularData: the task type, the processed label column, and the three   *)
(* snapshots, each represented by the sequence of row numbers it holds.    *)
(***************************************************************************)
\* a fitted TabularData over the given processed labels
NewTabular(is_regression, y) ==
    [is_regression |-> is_regression, y |-> y,
     raw |-> Arange(Len(y)), converted |-> Arange(Len(y)),
     processed |-> Arange(Len(y))]

\* TabularData.to_dataset
to_dataset(self) ==
    [is_regression |-> self.is_regression, y |-> self.y, time_column |-> <<>>]

\* DataTuple.split_with
split_with(tuple, indices) == [k \in 1..Len(indices) |-> tuple[indices[k] + 1]]

\* a part whose processed snapshot is left unsplit
Part_ProcessedUnsplit(self, indices) ==
    [raw |-> split_with(self.raw, indices),
     converted |-> split_with(self.converted, indices),
     processed |-> self.processed]

\* the snapshots TabularData.split gives a part
Part(self, indices) ==
    [raw |-> split_with(self.raw, indices),
     converted |-> split_with(self.converted, indices),
     processed |-> split_with(self.processed, indices)]

NoParts(status) ==
    [status |-> status, ratio |-> Count(0), p1 |-> Part(NewTabular(TRUE, <<>>), <<>>),
     p2 |-> Part(NewTabular(TRUE, <<>>), <<>>)]

\* TabularData.split: every (p1, p2) it can return for a ratio, or the error
tabular_split(self, ratio) ==
    UNION {IF fitted.status # "ok" THEN {NoParts(fitted.status)}
           ELSE {IF split_.status # "ok" THEN NoParts(split_.status)
                 ELSE [status |-> "ok", ratio |-> ratio,
                       p1 |-> Part(self, split_.corresponding_indices),
                       p2 |-> Part(self, split_.remaining_indices)] :
                    split_ \in split(fitted.self, ratio)} :
              fitted \in fit(NewSplitter(FALSE, FALSE, FALSE), to_dataset(self))}

(***************************************************************************)
(* Processor (src/cfdata/tabular/processors/base.py).  A processor is the  *)
(* record of its instance attributes, together with the identifier its     *)
(* class is registered under; a class is given by its input_dim and        *)
(* output_dim.                                                             *)
(***************************************************************************)
MaxDim == 2

\* the registered processor classes: identifier -> class
processor_dict ==
    [identifier \in (0..MaxDim) \X (0..MaxDim) |->
        [input_dim |-> identifier[1], output_dim |-> identifier[2]]]

\* Processor.input_dim, Processor.output_dim (abstract properties)
input_dim(self) == processor_dict[self.identifier].input_dim

output_dim(self) == processor_dict[self.identifier].output_dim

\* the kwargs a processor is constructed with when none are given
NoConfig == <<>>

\* Processor.__init__, of the class registered under the identifier
NewProcessor(identifier, previous_processors, inplace, config) ==
    LET start_idx == SumSeq([k \in 1..Len(previous_processors) |->
                               input_dim(previous_processors[k])])
    IN  [identifier |-> identifier,
         caches |-> <<>>,
         config |-> config,
         inplace |-> inplace,
         previous_processors |-> previous_processors,
         col_indices |-> [i \in 1..processor_dict[identifier].input_dim |->
                            start_idx + i - 1]]

\* Processor.input_indices
input_indices(self) == self.col_indices

\* output_indices with the offset taken from the predecessors' input_dim
output_indices_FromInputDims(self) ==
    LET previous_dimensions == SumSeq([k \in 1..Len(self.previous_processors) |->
                                         input_dim(self.previous_processors[k])])
    IN  [i \in 1..output_dim(self) |-> previous_dimensions + i - 1]

\* Processor.output_indices
output_indices(self) ==
    LET previous_dimensions == SumSeq([k \in 1..Len(self.previous_processors) |->
                                         output_dim(self.previous_processors[k])])
    IN  [i \in 1..output_dim(self) |-> previous_dimensions + i - 1]

\* Processor.fit of a concrete class: what it learns from the columns goes
\* to its caches
processor_fit(self, columns) == [self EXCEPT !.caches = <<columns>>]

\* Processor.dumps_: the instance attributes and the identifier
dumps_(self) ==
    [caches |-> self.caches,
     config |-> self.config,
     inplace |-> self.inplace,
     previous_processors |-> self.previous_processors,
     col_indices |-> self.col_indices,
     identifier_key |-> self.identifier]

\* the previous_processors keyword of loads: a list, or absent (None)
Given(previous_processors) == [is_none |-> FALSE, value |-> previous_processors]

None == [is_none |-> TRUE, value |-> <<>>]

\* Processor.loads
loads(instance_dict, kwargs) ==
    IF kwargs.is_none
    THEN [status |-> "ValueError", processor |-> NewProcessor(<<0, 0>>, <<>>, FALSE, NoConfig)]
    ELSE LET previous_processors == kwargs.value
             processor == NewProcessor(instance_dict.identifier_key,
                                       previous_processors, FALSE, NoConfig)
         IN  [status |-> "ok",
              processor |-> [processor EXCEPT
                               !.caches = instance_dict.caches,
                               !.config = instance_dict.config,
                               !.inplace = instance_dict.inplace,
                               !.previous_processors = instance_dict.previous_processors,
                               !.col_indices = instance_dict.col_indices]]

\* what is seen of a dumps_ / loads round trip: the position of the processor
\* dumped, the list supplied to loads, and what loads returned
Loaded(position, supplied, o) ==
    [status |-> o.status, position |-> position, supplied |-> supplied,
     processor |-> o.processor]

NoLoaded ==
    Loaded(0, None, [status |-> "none",
                     processor |-> NewProcessor(<<0, 0>>, <<>>, FALSE, NoConfig)])

(***************************************************************************)
(* TabularData.read / transform / recover_labels                           *)
(* (src/cfdata/tabular/wrapper.py).  A raw dataset is given by a tag, its  *)
(* number of feature columns, the columns its recognizers find invalid and *)
(* its label column; a feature column is represented by its origin (the    *)
(* dataset's tag and the raw column number) and a processed block by the   *)
(* processor and the columns it was given.  Label values are counted in    *)
(* halves, so that a label processor can give values that are not whole.   *)
(***************************************************************************)
MaxColumns == 3

\* the task types
TaskTypes == {"CLASSIFICATION", "REGRESSION"}

\* the classes a feature column can be processed with: one column to one,
\* one column to two, two columns to one
FeatureIdentifiers == {<<1, 1>>, <<1, 2>>, <<2, 1>>}

\* process_methods naming the one-column identical processor for every column
DefaultMethods == [idx \in 0..(MaxColumns - 1) |-> <<1, 1>>]

\* TabularData.__init__
NewTabularData(task_type, process_methods, label_process_method) ==
    [status |-> "none",
     task_type |-> task_type,
     process_methods |-> process_methods,
     label_process_method |-> label_process_method,
     excludes |-> {},
     raw |-> [tag |-> "none", dim |-> 0, invalid |-> {}, y |-> <<>>],
     recognizers |-> <<>>,
     converters |-> {},
     processors |-> <<>>,
     converted |-> [x |-> <<>>, y |-> <<>>],
     processed |-> [x |-> <<>>, y |-> <<>>]]

\* TabularData.raw_dim
raw_dim(self) == self.raw.dim

\* Recognizer(...).fit(flat_arr).info.is_valid: a column forced valid is
\* valid, another one is valid unless the recognizer finds it invalid
is_valid(raw, i, force_valid) == force_valid \/ i \notin raw.invalid

\* Converter.convert / converted_input of a feature column
convert(raw, i) == [raw |-> raw.tag, column |-> i]

\* the label Converter: numbers the original label values from 0
LabelBase == 5

label_convert(value) == 2 * (value - LabelBase)

label_converter_recover(halves) == (halves \div 2) + LabelBase

\* the label Processor named by a method: its forward map and its recover
label_process(method, halves) == IF method = "halve" THEN halves \div 2 ELSE halves

label_processor_recover(method, halves) == IF method = "halve" THEN 2 * halves ELSE halves

\* arr.astype(np_int_type) on a non-negative value: the fraction is cut off
astype_int(halves) == 2 * (halves \div 2)

\* Processor.process of a fitted feature processor on its columns
process(processor, columns) == [processor |-> processor, columns |-> columns]

\* converted_x[..., indices]
TakeColumns(converted_x, indices) == [k \in 1..Len(indices) |-> converted_x[indices[k] + 1]]

\* _core_fit, the loop over the raw feature columns from column i on
RECURSIVE convert_features(_, _)
convert_features(self, i) ==
    IF i >= raw_dim(self) THEN self
    ELSE LET force_valid == (i = raw_dim(self) - 1)
                               /\ (raw_dim(self) - 1 = Cardinality(self.excludes))
             valid == is_valid(self.raw, i, force_valid)
             s1 == [self EXCEPT !.recognizers =
                        (i :> [force_valid |-> force_valid, is_valid |-> valid]) @@ @]
         IN  IF ~valid
             THEN convert_features([s1 EXCEPT !.excludes = @ \cup {i}], i + 1)
             ELSE convert_features(
                      [s1 EXCEPT !.converters = @ \cup {i},
                                 !.converted.x = Append(@, convert(self.raw, i))],
                      i + 1)

\* _core_fit, the loop that places the processors from raw column idx on
RECURSIVE process_features(_, _, _)
process_features(self, idx, previous_processors) ==
    IF idx >= raw_dim(self) THEN [status |-> "ok", self |-> self]
    ELSE IF idx \in self.excludes THEN process_features(self, idx + 1, previous_processors)
    ELSE LET processor == NewProcessor(self.process_methods[idx], previous_processors,
                                       FALSE, NoConfig)
             indices == input_indices(processor)
         IN  IF \E k \in 1..Len(indices) : indices[k] >= Len(self.converted.x)
             THEN [status |-> "IndexError",
                   self |-> [self EXCEPT !.processors = (idx :> processor) @@ @]]
             ELSE LET columns == TakeColumns(self.converted.x, indices)
                      fitted == processor_fit(processor, columns)
                  IN  process_features(
                          [self EXCEPT !.processors = (idx :> fitted) @@ @,
                                       !.processed.x = Append(@, process(fitted, columns))],
                          idx + input_dim(processor),
                          Append(previous_processors, fitted))

\* TabularData._core_fit on the raw dataset just stored by read; converted.x
\* and processed.x hold the lists converted_features and processed_features
\* while the loops build them
core_fit(self) ==
    LET s1 == convert_features([self EXCEPT !.recognizers = <<>>, !.converters = {},
                                            !.converted = [x |-> <<>>, y |-> <<>>],
                                            !.processed = [x |-> <<>>, y |-> <<>>]], 0)
        converted_labels == [k \in 1..Len(self.raw.y) |-> label_convert(self.raw.y[k])]
    IN  IF s1.converted.x = <<>> THEN [status |-> "ValueError", self |-> s1]
        ELSE
        LET o == process_features([s1 EXCEPT !.processors = <<>>], 0, <<>>)
            processed_labels == [k \in 1..Len(converted_labels) |->
                                   label_process(self.label_process_method,
                                                 converted_labels[k])]
            is_clf == self.task_type = "CLASSIFICATION"
        IN  IF o.status # "ok" THEN o
            ELSE IF o.self.processed.x = <<>> THEN [status |-> "ValueError", self |-> o.self]
            ELSE [status |-> "ok",
                  self |-> [o.self EXCEPT
                      !.converted.y = IF is_clf
                                      THEN [k \in 1..Len(converted_labels) |->
                                              astype_int(converted_labels[k])]
                                      ELSE converted_labels,
                      !.processed.y = IF is_clf
                                      THEN [k \in 1..Len(processed_labels) |->
                                              astype_int(processed_labels[k])]
                                      ELSE processed_labels]]

\* TabularData.read of arrays
read(self, raw) ==
    LET o == core_fit([self EXCEPT !.raw = raw])
    IN  [status |-> o.status, self |-> [o.self EXCEPT !.status = o.status]]

\* the processors of a TabularData in the order of their raw columns, each
\* with its raw column and its input column block
RECURSIVE Placed(_, _)
Placed(processors, idx) ==
    IF \A j \in DOMAIN processors : j < idx THEN <<>>
    ELSE IF idx \in DOMAIN processors
    THEN <<[idx |-> idx, processor |-> processors[idx],
            input_indices |-> input_indices(processors[idx])]>>
             \o Placed(processors, idx + 1)
    ELSE Placed(processors, idx + 1)

\* _transform, the loop over the fitted processors from raw column idx on
RECURSIVE transform_features(_, _, _, _)
transform_features(self, converted_features, idx, done) ==
    IF idx >= raw_dim(self) THEN [status |-> "ok", applied |-> done.applied,
                                  processed |-> done.processed]
    ELSE IF idx \in self.excludes
    THEN transform_features(self, converted_features, idx + 1, done)
    ELSE IF idx \notin DOMAIN self.processors
    THEN [status |-> "KeyError", applied |-> done.applied, processed |-> done.processed]
    ELSE LET processor == self.processors[idx]
             indices == input_indices(processor)
         IN  IF \E k \in 1..Len(indices) : indices[k] >= Len(converted_features)
             THEN [status |-> "IndexError", applied |-> done.applied,
                   processed |-> done.processed]
             ELSE LET columns == TakeColumns(converted_features, indices)
                  IN  transform_features(
                          self, converted_features, idx + input_dim(processor),
                          [applied |-> Append(done.applied,
                                              [idx |-> idx, processor |-> processor,
                                               input_indices |-> indices]),
                           processed |-> Append(done.processed, process(processor, columns))])

\* what a call on a fitted TabularData leaves behind: the TabularData, the
\* raw columns it skipped, the processors it applied, and what it returned
Transformed(self, status, skipped, applied, converted, transformed) ==
    [op |-> "transform", status |-> status, self |-> self, skipped |-> skipped,
     applied |-> applied, converted |-> converted, transformed |-> transformed,
     labels |-> <<>>]

\* TabularData.transform (with return_converted=True) of a raw dataset that
\* has the columns of the fitted one
transform(self, raw) ==
    LET columns == {i \in 0..(raw.dim - 1) : i \notin self.excludes}
        converted_features == [k \in 1..Cardinality(columns) |->
                                 convert(raw, SortedSeq(columns)[k])]
        skipped == (0..(raw.dim - 1)) \ columns
        o == transform_features(self, converted_features, 0,
                                [applied |-> <<>>, processed |-> <<>>])
        converted_labels == [k \in 1..Len(raw.y) |-> label_convert(raw.y[k])]
        transformed_labels == [k \in 1..Len(raw.y) |->
                                 label_process(self.label_process_method,
                                               converted_labels[k])]
        is_clf == self.task_type = "CLASSIFICATION"
    IN  IF columns \ self.converters # {}
        THEN Transformed(self, "KeyError", skipped, <<>>, <<>>, <<>>)
        ELSE IF converted_features = <<>>
        THEN Transformed(self, "ValueError", skipped, <<>>, <<>>, <<>>)
        ELSE IF o.status # "ok"
        THEN Transformed(self, o.status, skipped, o.applied, <<>>, <<>>)
        ELSE Transformed(self, "ok", skipped, o.applied,
                 [x |-> converted_features,
                  y |-> IF is_clf
                        THEN [k \in 1..Len(raw.y) |-> astype_int(converted_labels[k])]
                        ELSE converted_labels],
                 [x |-> o.processed,
                  y |-> IF is_clf
                        THEN [k \in 1..Len(raw.y) |-> astype_int(transformed_labels[k])]
                        ELSE transformed_labels])

\* TabularData.recover_labels: the label processor's recover, then the label
\* converter's
recover_labels(self, y) ==
    LET process_recovered == [k \in 1..Len(y) |->
                                label_processor_recover(self.label_process_method, y[k])]
        convert_recovered == [k \in 1..Len(y) |->
                                label_converter_recover(process_recovered[k])]
    IN  [op |-> "recover_labels", status |-> "ok", self |-> self, skipped |-> {},
         applied |-> <<>>, converted |-> <<>>, transformed |-> <<>>,
         labels |-> convert_recovered]

NoOut ==
    [op |-> "none", status |-> "none", skipped |-> {}, applied |-> <<>>,
     converted |-> <<>>, transformed |-> <<>>, labels |-> <<>>]

\* what is seen of a read: its status
ReadOut(status) == [NoOut EXCEPT !.op = "read", !.status = status]

\* what is seen of a call on a fitted TabularData
Out(o) ==
    [op |-> o.op, status |-> o.status, skipped |-> o.skipped, applied |-> o.applied,
     converted |-> o.converted, transformed |-> o.transformed, labels |-> o.labels]

(***************************************************************************)
(* The inputs of the model.                                                *)
(***************************************************************************)
\* the sizes split is called with: counts 0 .. MaxRows + 1 and two fractions
NValues ==
    {Count(k) : k \in 0..(MaxRows + 1)} \cup {Fraction(1, 4), Fraction(3, 4)}

\* the datasets a splitter is fitted on; the labels are read by the
\* classification policy only and the time column by a time series splitter only
Datasets(self) ==
    {[is_regression |-> reg, y |-> y, time_column |-> t] :
        reg \in BOOLEAN,
        y \in UNION {[1..rows -> 0..(MaxLabels - 1)] : rows \in 1..MaxRows},
        t \in UNION {[1..rows -> 0..(MaxTimes - 1)] : rows \in 0..MaxRows}}

IsDataset(self, d) ==
    /\ IF self.is_time_series THEN Len(d.time_column) = Len(d.y)
                              ELSE d.time_column = <<>>
    /\ (d.is_regression \/ self.is_time_series) => \A i \in 1..Len(d.y) : d.y[i] = 0

\* a call: the method, its argument and the size of the pool it found
Call(op, n, self) == [op |-> op, n |-> n, pool |-> Len(self.remained_indices)]

NoCall == [op |-> "init", n |-> Count(0), pool |-> 0]

\* what is seen of a split_multiple call: its arguments, the status and the
\* list of SplitResults
Multiple(n_list, return_remained, o) ==
    [status |-> o.status, n_list |-> n_list, return_remained |-> return_remained,
     results |-> o.results]

NoMultiple == Multiple(<<>>, FALSE, MultipleResult(NewSplitter(FALSE, FALSE, FALSE), "none", <<>>))

\* an entry of the history of draws: the indices a split returned, and whether
\* they were the whole pool (n at least the pool size)
Draw(self, n, o) ==
    [indices |-> o.corresponding_indices, whole |-> NGeq(n, Len(self.remained_indices))]

Init ==
    /\ splitter \in {NewSplitter(ts, shuffle, replace) :
                        ts \in BOOLEAN, shuffle \in BOOLEAN, replace \in BOOLEAN}
    /\ ~(splitter.is_time_series /\ splitter.replace)
    /\ call = NoCall
    /\ result = Outcome(NoResult(splitter, "none"))
    /\ drawn = <<>>
    /\ tabular = NewTabular(TRUE, <<>>)
    /\ parts = NoParts("none")
    /\ multi = NoMultiple
    /\ chain = <<>>
    /\ loaded = NoLoaded
    /\ data = NewTabularData("CLASSIFICATION", DefaultMethods, "identical")
    /\ out = NoOut
    /\ held = NoHeld
    /\ arrays = NoArrays

Fit ==
    /\ ~splitter.fitted
    /\ \E d \in Datasets(splitter) :
        /\ IsDataset(splitter, d)
        /\ \E o \in fit(splitter, d) :
            /\ splitter' = o.self
            /\ result' = Outcome(NoResult(o.self, o.status))
    /\ call' = Call("fit", Count(0), splitter)
    /\ drawn' = <<>>
    /\ UNCHANGED <<callerVars, tabularVars, multipleVars, processorVars, dataVars>>

Reset ==
    /\ splitter.fitted
    /\ \E o \in reset(splitter) :
        /\ splitter' = o.self
        /\ result' = Outcome(NoResult(o.self, o.status))
    /\ call' = Call("reset", Count(0), splitter)
    /\ drawn' = <<>>
    /\ UNCHANGED <<callerVars, tabularVars, multipleVars, processorVars, dataVars>>

Split ==
    /\ splitter.fitted
    /\ Len(drawn) < MaxSplits
    /\ \E n \in NValues :
        /\ call' = Call("split", n, splitter)
        /\ \E o \in split(splitter, n) :
            /\ splitter' = o.self
            /\ result' = Outcome(o)
            /\ drawn' = IF o.status = "ok" /\ ~splitter.replace
                        THEN Append(drawn, Draw(splitter, n, o))
                        ELSE drawn
    /\ UNCHANGED <<callerVars, tabularVars, multipleVars, processorVars, dataVars>>

Next == Fit \/ Reset \/ Split

Spec == Init /\ [][Next]_vars

(***************************************************************************)
(* A caller that keeps the index arrays of a SplitResult while the         *)
(* splitter goes on.  An array is kept with its values at the return and   *)
(* its values now, which differ once memory it shares with the pool        *)
(* (_remained_indices) is written in place.                                *)
(***************************************************************************)
\* split took the early return for n at least the size of the pool
EarlyReturn(self, n) == NGeq(n, Len(self.remained_indices))

\* the arrays of the SplitResult a successful split(n) on self returned.
\* corresponding_indices is the pool itself on the early return and a view of
\* its tail from _split_reg, and a new array from the other policies;
\* remaining_indices is the pool itself except on the early return
Held(self, n, o) ==
    [status |-> "held",
     returned |-> [corresponding_indices |-> o.corresponding_indices,
                   remaining_indices |-> o.remaining_indices],
     corresponding_indices |-> o.corresponding_indices,
     remaining_indices |-> o.remaining_indices,
     corresponding_shares |-> \/ EarlyReturn(self, n)
                              \/ (~self.is_time_series /\ self.is_regression),
     remaining_shares |-> ~EarlyReturn(self, n)]

\* a successful split(n) on self writes the memory of the pool in place: the
\* np.random.shuffle of _split_reg with replace
PoolWritten(self, n) ==
    /\ ~EarlyReturn(self, n)
    /\ ~self.is_time_series /\ self.is_regression
    /\ self.replace

\* a successful split(n) on self binds _remained_indices to new memory:
\* np.hstack in _split_clf and _split_time_series (the early return leaves
\* the pool alone, _split_reg shuffles it in place or takes a view of it)
PoolRebound(self, n) ==
    /\ ~EarlyReturn(self, n)
    /\ self.is_time_series \/ ~self.is_regression

\* the arrays kept, after a later successful split(n) on self that left the
\* splitter as after: an array that shares the memory of the pool shows
\* what was written there
AfterSplit(kept, self, n, after) ==
    IF kept.status # "held" THEN kept
    ELSE IF PoolWritten(self, n)
    THEN [kept EXCEPT
            !.corresponding_indices =
                IF kept.corresponding_shares
                THEN TailSlice(after.remained_indices, Len(@)) ELSE @,
            !.remaining_indices =
                IF kept.remaining_shares THEN after.remained_indices ELSE @]
    ELSE IF PoolRebound(self, n)
    THEN [kept EXCEPT !.corresponding_shares = FALSE, !.remaining_shares = FALSE]
    ELSE kept

\* the arrays kept, after a reset: every reset policy binds _remained_indices
\* to a new array
AfterReset(kept) ==
    [kept EXCEPT !.corresponding_shares = FALSE, !.remaining_shares = FALSE]

InitHeld ==
    /\ \E replace \in BOOLEAN : splitter = NewSplitter(FALSE, FALSE, replace)
    /\ call = NoCall
    /\ result = Outcome(NoResult(splitter, "none"))
    /\ drawn = <<>>
    /\ tabular = NewTabular(TRUE, <<>>)
    /\ parts = NoParts("none")
    /\ multi = NoMultiple
    /\ chain = <<>>
    /\ loaded = NoLoaded
    /\ data = NewTabularData("CLASSIFICATION", DefaultMethods, "identical")
    /\ out = NoOut
    /\ held = NoHeld
    /\ arrays = NoArrays

\* split(n); the caller keeps the arrays of the first SplitResult it gets,
\* and goes on with them through the later calls
SplitHeld ==
    /\ splitter.fitted
    /\ Len(drawn) < MaxSplits
    /\ \E n \in NValues :
        /\ call' = Call("split", n, splitter)
        /\ \E o \in split(splitter, n) :
            /\ splitter' = o.self
            /\ result' = Outcome(o)
            /\ drawn' = IF o.status = "ok" /\ ~splitter.replace
                        THEN Append(drawn, Draw(splitter, n, o))
                        ELSE drawn
            /\ held' = IF o.status # "ok" THEN held
                       ELSE IF held.status = "none" THEN Held(splitter, n, o)
                       ELSE AfterSplit(held, splitter, n, o.self)
    /\ UNCHANGED <<arrays, tabularVars, multipleVars, processorVars, dataVars>>

ResetHeld ==
    /\ splitter.fitted
    /\ \E o \in reset(splitter) :
        /\ splitter' = o.self
        /\ result' = Outcome(NoResult(o.self, o.status))
    /\ call' = Call("reset", Count(0), splitter)
    /\ drawn' = <<>>
    /\ held' = AfterReset(held)
    /\ UNCHANGED <<arrays, tabularVars, multipleVars, processorVars, dataVars>>

NextHeld == Fit \/ SplitHeld \/ ResetHeld

SpecHeld == InitHeld /\ [][NextHeld]_vars

(***************************************************************************)
(* The stratified split on larger datasets: a classification splitter      *)
(* without shuffling and without replacement, fitted on a dataset whose    *)
(* rows are sorted by label, and its first split.                          *)
(***************************************************************************)
\* the ways to give each of k labels at least one row, using at most rows rows
RECURSIVE LabelCounts(_, _)
LabelCounts(k, rows) ==
    IF k = 0 THEN {<<>>}
    ELSE UNION {{<<c>> \o rest : rest \in LabelCounts(k - 1, rows - c)} :
                   c \in 1..(rows - (k - 1))}

\* the label column holding counts[l] rows of label l - 1, in label order
SortedLabels(counts) ==
    HStack([l \in 1..Len(counts) |-> [i \in 1..counts[l] |-> l - 1]])

StratDatasets ==
    {[is_regression |-> FALSE, y |-> SortedLabels(counts), time_column |-> <<>>] :
        counts \in UNION {LabelCounts(k, MaxStratRows) : k \in 2..MaxStratLabels}}

StratNValues == {Count(k) : k \in 1..MaxStratRows}

InitStrat ==
    /\ splitter = NewSplitter(FALSE, FALSE, FALSE)
    /\ call = NoCall
    /\ result = Outcome(NoResult(splitter, "none"))
    /\ drawn = <<>>
    /\ tabular = NewTabular(TRUE, <<>>)
    /\ parts = NoParts("none")
    /\ multi = NoMultiple
    /\ chain = <<>>
    /\ loaded = NoLoaded
    /\ data = NewTabularData("CLASSIFICATION", DefaultMethods, "identical")
    /\ out = NoOut
    /\ held = NoHeld
    /\ arrays = NoArrays

FitStrat ==
    /\ ~splitter.fitted
    /\ \E d \in StratDatasets :
        \E o \in fit(splitter, d) :
            /\ splitter' = o.self
            /\ result' = Outcome(NoResult(o.self, o.status))
    /\ call' = Call("fit", Count(0), splitter)
    /\ drawn' = <<>>
    /\ UNCHANGED <<callerVars, tabularVars, multipleVars, processorVars, dataVars>>

SplitStrat ==
    /\ call.op = "fit"
    /\ \E n \in StratNValues :
        /\ call' = Call("split", n, splitter)
        /\ \E o \in split(splitter, n) :
            /\ splitter' = o.self
            /\ result' = Outcome(o)
            /\ drawn' = IF o.status = "ok"
                        THEN Append(drawn, Draw(splitter, n, o))
                        ELSE drawn
    /\ UNCHANGED <<callerVars, tabularVars, multipleVars, processorVars, dataVars>>

NextStrat == FitStrat \/ SplitStrat

SpecStrat == InitStrat /\ [][NextStrat]_vars

(***************************************************************************)
(* Construction of a DataSplitter from its arguments, and the fit, the     *)
(* splits and the resets of the splitter constructed.                      *)
(***************************************************************************)
TimeSeriesConfigs ==
    {NoTimeSeries} \cup
    {TimeSeriesConfig(id_column, time_column) :
        id_column \in BOOLEAN, time_column \in BOOLEAN}

\* no constructor has run yet
Unconstructed == call = NoCall /\ result.status = "none"

\* a constructor has returned a splitter
Constructed == ~Unconstructed /\ ~(call.op = "init" /\ result.status # "ok")

InitConstruct ==
    /\ splitter = NewSplitter(FALSE, FALSE, FALSE)
    /\ call = NoCall
    /\ result = Outcome(NoResult(splitter, "none"))
    /\ drawn = <<>>
    /\ tabular = NewTabular(TRUE, <<>>)
    /\ parts = NoParts("none")
    /\ multi = NoMultiple
    /\ chain = <<>>
    /\ loaded = NoLoaded
    /\ data = NewTabularData("CLASSIFICATION", DefaultMethods, "identical")
    /\ out = NoOut
    /\ held = NoHeld
    /\ arrays = NoArrays

\* DataSplitter(time_series_config=..., shuffle=False, replace=...): a
\* constructor that raises leaves no splitter behind
Construct ==
    /\ Unconstructed
    /\ \E time_series_config \in TimeSeriesConfigs, replace \in BOOLEAN :
        LET o == init(time_series_config, FALSE, replace)
        IN  /\ splitter' = IF o.status = "ok" THEN o.self ELSE splitter
            /\ result' = Outcome(NoResult(o.self, o.status))
    /\ UNCHANGED <<callerVars, call, drawn, tabularVars, multipleVars, processorVars, dataVars>>

ConstructedFit == Constructed /\ Fit

ConstructedSplit == Constructed /\ Split

ConstructedReset == Constructed /\ Reset

NextConstruct == Construct \/ ConstructedFit \/ ConstructedSplit \/ ConstructedReset

SpecConstruct == InitConstruct /\ [][NextConstruct]_vars

(***************************************************************************)
(* One DataSplitter, constructed without shuffling and without             *)
(* replacement, fitted with a dataset and fitted again with other datasets.*)
(***************************************************************************)
InitRefit ==
    /\ \E timeSeries \in BOOLEAN : splitter = NewSplitter(timeSeries, FALSE, FALSE)
    /\ call = NoCall
    /\ result = Outcome(NoResult(splitter, "none"))
    /\ drawn = <<>>
    /\ tabular = NewTabular(TRUE, <<>>)
    /\ parts = NoParts("none")
    /\ multi = NoMultiple
    /\ chain = <<>>
    /\ loaded = NoLoaded
    /\ data = NewTabularData("CLASSIFICATION", DefaultMethods, "identical")
    /\ out = NoOut
    /\ held = NoHeld
    /\ arrays = NoArrays

\* fit(dataset) on a splitter that has been fitted before
Refit ==
    /\ splitter.fitted
    /\ \E d \in Datasets(splitter) :
        /\ IsDataset(splitter, d)
        /\ \E o \in fit(splitter, d) :
            /\ splitter' = o.self
            /\ result' = Outcome(NoResult(o.self, o.status))
    /\ call' = Call("fit", Count(0), splitter)
    /\ drawn' = <<>>
    /\ UNCHANGED <<callerVars, tabularVars, multipleVars, processorVars, dataVars>>

NextRefit == Fit \/ Refit

SpecRefit == InitRefit /\ [][NextRefit]_vars

(***************************************************************************)
(* Successive splits of a classification splitter without shuffling and    *)
(* without replacement, fitted on datasets large enough for label pools to *)
(* shrink more than once.                                                  *)
(***************************************************************************)
MaxPoolRows == 6

MaxPoolLabels == 3

PoolDatasets ==
    {[is_regression |-> FALSE, y |-> SortedLabels(counts), time_column |-> <<>>] :
        counts \in UNION {LabelCounts(k, MaxPoolRows) : k \in 2..MaxPoolLabels}}

InitPools ==
    /\ splitter = NewSplitter(FALSE, FALSE, FALSE)
    /\ call = NoCall
    /\ result = Outcome(NoResult(splitter, "none"))
    /\ drawn = <<>>
    /\ tabular = NewTabular(TRUE, <<>>)
    /\ parts = NoParts("none")
    /\ multi = NoMultiple
    /\ chain = <<>>
    /\ loaded = NoLoaded
    /\ data = NewTabularData("CLASSIFICATION", DefaultMethods, "identical")
    /\ out = NoOut
    /\ held = NoHeld
    /\ arrays = NoArrays

FitPools ==
    /\ ~splitter.fitted
    /\ \E d \in PoolDatasets :
        \E o \in fit(splitter, d) :
            /\ splitter' = o.self
            /\ result' = Outcome(NoResult(o.self, o.status))
    /\ call' = Call("fit", Count(0), splitter)
    /\ drawn' = <<>>
    /\ UNCHANGED <<callerVars, tabularVars, multipleVars, processorVars, dataVars>>

NextPools == FitPools \/ Split \/ Reset

SpecPools == InitPools /\ [][NextPools]_vars

(***************************************************************************)
(* Successive splits and resets of a time series splitter without          *)
(* shuffling, fitted on regression datasets with several rows per time.    *)
(***************************************************************************)
MaxSeriesRows == 5

MaxSeriesTimes == 3

\* the time column holds counts[t] rows of time t - 1, in time order
SeriesDatasets ==
    {[is_regression |-> TRUE, y |-> [i \in 1..Len(SortedLabels(counts)) |-> 0],
      time_column |-> SortedLabels(counts)] :
        counts \in UNION {LabelCounts(k, MaxSeriesRows) : k \in 1..MaxSeriesTimes}}

InitSeries ==
    /\ splitter = NewSplitter(TRUE, FALSE, FALSE)
    /\ call = NoCall
    /\ result = Outcome(NoResult(splitter, "none"))
    /\ drawn = <<>>
    /\ tabular = NewTabular(TRUE, <<>>)
    /\ parts = NoParts("none")
    /\ multi = NoMultiple
    /\ chain = <<>>
    /\ loaded = NoLoaded
    /\ data = NewTabularData("CLASSIFICATION", DefaultMethods, "identical")
    /\ out = NoOut
    /\ held = NoHeld
    /\ arrays = NoArrays

FitSeries ==
    /\ ~splitter.fitted
    /\ \E d \in SeriesDatasets :
        \E o \in fit(splitter, d) :
            /\ splitter' = o.self
            /\ result' = Outcome(NoResult(o.self, o.status))
    /\ call' = Call("fit", Count(0), splitter)
    /\ drawn' = <<>>
    /\ UNCHANGED <<callerVars, tabularVars, multipleVars, processorVars, dataVars>>

NextSeries == FitSeries \/ Split \/ Reset

SpecSeries == InitSeries /\ [][NextSeries]_vars

(***************************************************************************)
(* split_multiple on a freshly fitted splitter.                            *)
(***************************************************************************)
MaxListLen == 2

\* the sizes in an n_list: fractions (binary ones, whose float sums are exact)
\* and counts
NListValues ==
    {Fraction(1, 4), Fraction(1, 2), Fraction(3, 4)} \cup {Count(k) : k \in 1..MaxRows}

NLists == UNION {[1..len -> NListValues] : len \in 1..MaxListLen}

SplitMultiple ==
    /\ call.op = "fit"
    /\ result.status = "ok"
    /\ \E n_list \in NLists, return_remained \in BOOLEAN :
        \E o \in split_multiple(splitter, n_list, return_remained) :
            /\ splitter' = o.self
            /\ multi' = Multiple(n_list, return_remained, o)
    /\ call' = Call("split_multiple", Count(0), splitter)
    /\ UNCHANGED <<callerVars, result, drawn, tabularVars, processorVars, dataVars>>

\* a splitter of any policy, without shuffling and without replacement
InitMultiple ==
    /\ splitter \in {NewSplitter(ts, FALSE, FALSE) : ts \in BOOLEAN}
    /\ call = NoCall
    /\ result = Outcome(NoResult(splitter, "none"))
    /\ drawn = <<>>
    /\ tabular = NewTabular(TRUE, <<>>)
    /\ parts = NoParts("none")
    /\ multi = NoMultiple
    /\ chain = <<>>
    /\ loaded = NoLoaded
    /\ data = NewTabularData("CLASSIFICATION", DefaultMethods, "identical")
    /\ out = NoOut
    /\ held = NoHeld
    /\ arrays = NoArrays

NextMultiple == Fit \/ SplitMultiple

SpecMultiple == InitMultiple /\ [][NextMultiple]_vars

(***************************************************************************)
(* A chain of processors, each constructed with the ordered list of its    *)
(* predecessors and fitted on its columns, and dumps_ / loads on it.       *)
(***************************************************************************)
MaxChain == 3

InitChain ==
    /\ splitter = NewSplitter(FALSE, FALSE, FALSE)
    /\ call = NoCall
    /\ result = Outcome(NoResult(splitter, "none"))
    /\ drawn = <<>>
    /\ tabular = NewTabular(TRUE, <<>>)
    /\ parts = NoParts("none")
    /\ multi = NoMultiple
    /\ chain = <<>>
    /\ loaded = NoLoaded
    /\ data = NewTabularData("CLASSIFICATION", DefaultMethods, "identical")
    /\ out = NoOut
    /\ held = NoHeld
    /\ arrays = NoArrays

AddProcessor ==
    /\ Len(chain) < MaxChain
    /\ \E identifier \in DOMAIN processor_dict :
        LET processor == NewProcessor(identifier, chain, FALSE, NoConfig)
        IN  chain' = Append(chain, processor_fit(processor, input_indices(processor)))
    /\ UNCHANGED <<callerVars, loaded, splitterVars, tabularVars, multipleVars, dataVars>>

\* the lists of live processors loads can be given: the prefixes of the chain
LiveLists == {Given(SubSeq(chain, 1, k)) : k \in 0..Len(chain)}

DumpsLoads ==
    /\ \E position \in 1..Len(chain), supplied \in LiveLists \cup {None} :
        loaded' = Loaded(position, supplied, loads(dumps_(chain[position]), supplied))
    /\ UNCHANGED <<callerVars, chain, splitterVars, tabularVars, multipleVars, dataVars>>

NextChain == AddProcessor \/ DumpsLoads

SpecChain == InitChain /\ [][NextChain]_vars

(***************************************************************************)
(* Processor.process and Processor.recover on an array of the caller.  An  *)
(* array is the sequence of the values of one row; a call is seen by the   *)
(* values the caller's array had when given, the values it has afterwards  *)
(* and the values returned.  The transform of a concrete class (_process,  *)
(* _recover) computes a shifted block and is free to write into the array  *)
(* it is given.                                                            *)
(***************************************************************************)
MaxValue == 2

\* the values a concrete transform computes from a block: every value
\* shifted, laid out on the width of the result
Shifted(columns, by, dim) ==
    [i \in 1..dim |-> IF i <= Len(columns) THEN columns[i] + by
                                           ELSE SumSeq(columns) + by]

\* outcome of a concrete transform: the array it was given, as it is
\* afterwards, and the array it returns
TransformOutcome(given, returned) == [given |-> given, returned |-> returned]

\* _process of a concrete class: the block is computed into a new array, the
\* array given left alone, or written into the array given
concrete_process(self, columns) ==
    LET processed == Shifted(columns, 1, output_dim(self))
    IN  {TransformOutcome(columns, processed),
         TransformOutcome(Shifted(columns, 1, Len(columns)), processed)}

\* _recover of a concrete class, likewise
concrete_recover(self, columns) ==
    LET recovered == Shifted(columns, -1, input_dim(self))
    IN  {TransformOutcome(columns, recovered),
         TransformOutcome(Shifted(columns, -1, Len(columns)), recovered)}

\* what is seen of a call on the caller's array
Arrays(op, inplace, given, columns, returned) ==
    [op |-> op, inplace |-> inplace, given |-> given, columns |-> columns,
     returned |-> returned]

\* process that hands the caller's array to the transform whatever the flag
process_array_NoCopy(self, columns) ==
    {Arrays("process", self.inplace, columns, o.given, o.returned) :
        o \in concrete_process(self, columns)}

\* Processor.process on the caller's array
process_array(self, columns) ==
    IF ~self.inplace
    THEN {Arrays("process", self.inplace, columns, columns, o.returned) :
            o \in concrete_process(self, columns)}
    ELSE {Arrays("process", self.inplace, columns, o.given, o.returned) :
            o \in concrete_process(self, columns)}

\* Processor.recover on the caller's array
recover_array(self, columns, inplace) ==
    IF ~inplace
    THEN {Arrays("recover", inplace, columns, columns, o.returned) :
            o \in concrete_recover(self, columns)}
    ELSE {Arrays("recover", inplace, columns, o.given, o.returned) :
            o \in concrete_recover(self, columns)}

\* the rows of a block of the given width
Rows(dim) == [1..dim -> 0..MaxValue]

InitArrays ==
    /\ splitter = NewSplitter(FALSE, FALSE, FALSE)
    /\ call = NoCall
    /\ result = Outcome(NoResult(splitter, "none"))
    /\ drawn = <<>>
    /\ tabular = NewTabular(TRUE, <<>>)
    /\ parts = NoParts("none")
    /\ multi = NoMultiple
    /\ chain = <<>>
    /\ loaded = NoLoaded
    /\ data = NewTabularData("CLASSIFICATION", DefaultMethods, "identical")
    /\ out = NoOut
    /\ held = NoHeld
    /\ arrays = NoArrays

\* a processor of some class, constructed with inplace or without, and fitted
Create ==
    /\ chain = <<>>
    /\ \E identifier \in DOMAIN processor_dict, inplace \in BOOLEAN :
        LET processor == NewProcessor(identifier, <<>>, inplace, NoConfig)
        IN  /\ input_dim(processor) >= 1
            /\ output_dim(processor) >= 1
            /\ chain' = <<processor_fit(processor, input_indices(processor))>>
    /\ UNCHANGED <<arrays, held, loaded, splitterVars, tabularVars, multipleVars, dataVars>>

ProcessArray ==
    /\ chain # <<>>
    /\ \E columns \in Rows(input_dim(chain[1])) :
        \E o \in process_array(chain[1], columns) : arrays' = o
    /\ UNCHANGED <<held, processorVars, splitterVars, tabularVars, multipleVars, dataVars>>

RecoverArray ==
    /\ chain # <<>>
    /\ \E columns \in Rows(output_dim(chain[1])), inplace \in BOOLEAN :
        \E o \in recover_array(chain[1], columns, inplace) : arrays' = o
    /\ UNCHANGED <<held, processorVars, splitterVars, tabularVars, multipleVars, dataVars>>

NextArrays == Create \/ ProcessArray \/ RecoverArray

SpecArrays == InitArrays /\ [][NextArrays]_vars

(***************************************************************************)
(* A TabularData reads raw datasets; once fitted it transforms new data    *)
(* and recovers labels.                                                    *)
(***************************************************************************)
MaxLabelRows == 1

\* the label processors a TabularData can be configured with
LabelMethods == {"identical", "halve"}

\* the raw datasets with the given tag
RawDatasets(tag) ==
    {[tag |-> tag, dim |-> dim, invalid |-> invalid, y |-> y] :
        dim \in 1..MaxColumns,
        invalid \in SUBSET (0..(MaxColumns - 1)),
        y \in [1..MaxLabelRows -> LabelBase..(LabelBase + MaxLabels - 1)]}

IsRaw(raw) == raw.invalid \subseteq 0..(raw.dim - 1)

\* the process_methods a TabularData is constructed with: the default class
\* for every column, or another class for one of the columns
ProcessMethods ==
    {DefaultMethods} \cup
    {[DefaultMethods EXCEPT ![idx] = identifier] :
        idx \in 0..(MaxColumns - 1), identifier \in FeatureIdentifiers}

InitData ==
    /\ splitter = NewSplitter(FALSE, FALSE, FALSE)
    /\ call = NoCall
    /\ result = Outcome(NoResult(splitter, "none"))
    /\ drawn = <<>>
    /\ tabular = NewTabular(TRUE, <<>>)
    /\ parts = NoParts("none")
    /\ multi = NoMultiple
    /\ chain = <<>>
    /\ loaded = NoLoaded
    /\ data \in {NewTabularData("CLASSIFICATION", process_methods, "identical") :
                    process_methods \in ProcessMethods}
                \cup
                {NewTabularData(task_type, DefaultMethods, label_process_method) :
                    task_type \in TaskTypes, label_process_method \in LabelMethods}
    /\ out = NoOut
    /\ held = NoHeld
    /\ arrays = NoArrays

Read ==
    /\ \E raw \in RawDatasets("fitted") :
        /\ IsRaw(raw)
        /\ LET o == read(data, raw)
           IN  data' = o.self /\ out' = ReadOut(o.status)
    /\ UNCHANGED <<callerVars, splitterVars, tabularVars, multipleVars, processorVars>>

Transform ==
    /\ data.status = "ok"
    /\ \E raw \in RawDatasets("new") :
        /\ raw.dim = raw_dim(data)
        /\ raw.invalid = {}
        /\ LET o == transform(data, raw)
           IN  data' = o.self /\ out' = Out(o)
    /\ UNCHANGED <<callerVars, splitterVars, tabularVars, multipleVars, processorVars>>

RecoverLabels ==
    /\ data.status = "ok"
    /\ LET o == recover_labels(data, data.processed.y)
       IN  data' = o.self /\ out' = Out(o)
    /\ UNCHANGED <<callerVars, splitterVars, tabularVars, multipleVars, processorVars>>

NextData == Read \/ Transform \/ RecoverLabels

SpecData == InitData /\ [][NextData]_vars

(***************************************************************************)
(* TabularData.split on a fitted TabularData.                              *)
(***************************************************************************)
\* the fitted data: a regression task, or a classification task with its labels
Tabulars ==
    {NewTabular(TRUE, [i \in 1..rows |-> 0]) : rows \in 1..MaxTabularRows}
        \cup {NewTabular(FALSE, y) :
                 y \in UNION {[1..rows -> 0..(MaxLabels - 1)] :
                                 rows \in 1..MaxTabularRows}}

\* the ratios TabularData.split is called with
Ratios ==
    {Fraction(1, 4), Fraction(1, 2), Fraction(3, 4)}
        \cup {Count(k) : k \in 0..(MaxTabularRows + 1)}

InitTabular ==
    /\ splitter = NewSplitter(FALSE, FALSE, FALSE)
    /\ call = NoCall
    /\ result = Outcome(NoResult(splitter, "none"))
    /\ drawn = <<>>
    /\ tabular \in Tabulars
    /\ parts = NoParts("none")
    /\ multi = NoMultiple
    /\ chain = <<>>
    /\ loaded = NoLoaded
    /\ data = NewTabularData("CLASSIFICATION", DefaultMethods, "identical")
    /\ out = NoOut
    /\ held = NoHeld
    /\ arrays = NoArrays

TabularSplit ==
    /\ \E ratio \in Ratios : parts' \in tabular_split(tabular, ratio)
    /\ UNCHANGED <<callerVars, tabular, splitterVars, multipleVars, processorVars, dataVars>>

NextTabular == TabularSplit

SpecTabular == InitTabular /\ [][NextTabular]_vars

(***************************************************************************)
(* Properties.                                                             *)
(***************************************************************************)
\* the last call was a split that returned a SplitResult
SplitReturnedResult == call.op = "split" /\ result.status = "ok"

\* the splitter works under the classification policy
IsClassification(self) == ~self.is_time_series /\ ~self.is_regression

\* the requested size of the last call as a count
Requested == ToCount(call.n, splitter.n_data)

\* the last call asked for at least the whole pool
WholePoolRequested == NGeq(call.n, call.pool)

NoDuplicates(indices) == Cardinality(Range(indices)) = Len(indices)

\* the unique labels of the fitted dataset, in the order of the per-label lists
UniqueLabels == SortedSeq(Range(splitter.y))

\* the number of rows of one label among the given indices
DrawnOfLabel(indices, label) ==
    Cardinality({i \in Range(indices) : splitter.y[i + 1] = label})

\* C1 (as stated): every split(n) that returns a result returns exactly n
\* corresponding indices, a fraction n counted as floor(total_rows * n).
C1_SizeIsRequested ==
    SplitReturnedResult => Len(result.corresponding_indices) = Requested

\* C1 (amended): a split(n) that returns a result returns exactly n indices
\* when n is below the pool size, and the whole pool (pool-size many indices)
\* when n is at least the pool size.
C1_SizeIsRequestedOrPool ==
    SplitReturnedResult =>
        Len(result.corresponding_indices) =
            IF WholePoolRequested THEN call.pool ELSE Requested

\* C1 witness: a fraction was converted to a count below the pool size and the
\* classification split returned that many indices
C1_Witness ==
    /\ SplitReturnedResult
    /\ IsClassification(splitter)
    /\ NBelowOne(call.n)
    /\ ~WholePoolRequested
    /\ Len(result.corresponding_indices) = 2

\* C2 (as stated): without replacement the corresponding and the remaining
\* indices of a SplitResult have no index in common.
C2_Disjoint ==
    (SplitReturnedResult /\ ~splitter.replace) =>
        Range(result.corresponding_indices) \cap Range(result.remaining_indices) = {}

\* C2 (amended): without replacement the corresponding and the remaining
\* indices are disjoint under the time series policy; under the regression
\* policy they share an index only when the draw took the whole pool (a
\* fraction n whose count is the pool size), and then only the one index the
\* pool keeps; under the classification policy they share an index only if it
\* belongs to a label whose pool the split kept whole because the draw took
\* all of it or all but one.
C2_SharedOnlyInKeptPools ==
    [][(call'.op = "split" /\ result'.status = "ok" /\ ~splitter.replace) =>
        \A i \in Range(result'.corresponding_indices)
                    \cap Range(result'.remaining_indices) :
            \/ /\ ~splitter.is_time_series /\ splitter.is_regression
               /\ Range(result'.corresponding_indices) = Range(splitter.remained_indices)
               /\ result'.remaining_indices = <<i>>
            \/ /\ IsClassification(splitter)
               /\ \E l \in 1..Len(splitter.label_indices_list_in_use) :
                   LET pool == splitter.label_indices_list_in_use[l]
                   IN  /\ i \in Range(pool)
                       /\ splitter'.label_indices_list_in_use[l] = pool
                       /\ Cardinality(Range(result'.corresponding_indices)
                                          \cap Range(pool)) >= Len(pool) - 1]_vars

\* C2 witness: a classification split without replacement returned an index
\* that is still among the remaining ones
C2_Witness ==
    /\ SplitReturnedResult
    /\ ~splitter.replace
    /\ IsClassification(splitter)
    /\ Range(result.corresponding_indices) \cap Range(result.remaining_indices) # {}

\* C3: without replacement no index is returned by two split calls between
\* two resets.
C3_NoIndexDrawnTwice ==
    ~splitter.replace =>
        \A a, b \in 1..Len(drawn) :
            a < b => Range(drawn[a].indices) \cap Range(drawn[b].indices) = {}

\* C4: a split(n) with n at least the pool size returns the whole pool and
\* leaves the splitter's pool empty.
C4_PoolEmptyAfterWholeDraw ==
    (SplitReturnedResult /\ WholePoolRequested) =>
        /\ Len(result.corresponding_indices) = call.pool
        /\ Len(splitter.remained_indices) = 0

\* C5: a classification split(n) with n at least the number of unique labels
\* returns at least one row of every label, every per-label target count
\* being at least 1 after the rounding correction.
C5_EveryLabelDrawn ==
    (call.op = "split" /\ IsClassification(splitter)
        /\ Requested >= splitter.n_unique_labels) =>
        /\ result.status = "ok" =>
              \A label \in Range(splitter.y) :
                  DrawnOfLabel(result.corresponding_indices, label) >= 1
        /\ ~WholePoolRequested =>
              \A target \in n_samples_per_label(splitter.label_counts,
                                                splitter.n_samples, Requested) :
                  target.status = "ok" =>
                      \A l \in 1..splitter.n_unique_labels : target.value[l] >= 1

\* C6: in a classification split with number of unique labels <= n < pool size
\* the rounding correction completes (it never divides by an empty set of
\* adjustable labels) and leaves target counts whose sum is n.
C6_CorrectionCompletes ==
    (call.op = "split" /\ IsClassification(splitter) /\ ~WholePoolRequested
        /\ Requested >= splitter.n_unique_labels) =>
        /\ result.status # "OverflowError"
        /\ \A target \in n_samples_per_label(splitter.label_counts,
                                             splitter.n_samples, Requested) :
              target.status = "ok" /\ SumSeq(target.value) = Requested

\* the first split after a fit or reset, under the classification policy and
\* without replacement, returned a result for an n below the pool size
FirstStratifiedDraw ==
    /\ SplitReturnedResult
    /\ IsClassification(splitter)
    /\ ~splitter.replace
    /\ ~WholePoolRequested
    /\ Len(drawn) = 1

\* round(n * label_ratio) of a label, for the last call's n
RoundedTarget(l) == Round(Requested * splitter.label_counts[l], splitter.n_samples)

\* C7 (as stated): in a classification split without replacement the drawn
\* per-label counts sum to n and each differs from round(n * label_ratio) by
\* at most 1.
C7_WithinOneOfRounded ==
    FirstStratifiedDraw =>
        LET unique == UniqueLabels
            count == [l \in 1..Len(unique) |->
                        DrawnOfLabel(result.corresponding_indices, unique[l])]
        IN  /\ SumSeq(count) = Requested
            /\ \A l \in 1..Len(unique) : Abs(count[l] - RoundedTarget(l)) <= 1

\* C7 (amended): in the first classification split after a reset, without
\* replacement, the drawn per-label counts sum to n; a label whose rounded
\* count max(1, round(n * label_ratio)) is 1 draws exactly one row, and every
\* other label's drawn count differs from round(n * label_ratio), in the
\* direction that removes the excess e = sum of the rounded counts - n, by at
\* most ceil(|e| / number of those other labels), which can exceed 1.
C7_WithinTilesOfRounded ==
    FirstStratifiedDraw =>
        LET unique == UniqueLabels
            labels == 1..Len(unique)
            count == [l \in labels |->
                        DrawnOfLabel(result.corresponding_indices, unique[l])]
            floored == [l \in labels |-> Max(1, RoundedTarget(l))]
            excess == SumSeq(floored) - Requested
            others == Cardinality({l \in labels : floored[l] # 1})
            tiles == IF excess = 0 THEN 0 ELSE Ceil(Abs(excess), others)
        IN  /\ SumSeq(count) = Requested
            /\ \A l \in labels :
                  IF floored[l] = 1 THEN count[l] = 1
                  ELSE /\ excess * (floored[l] - count[l]) >= 0
                       /\ Abs(floored[l] - count[l]) <= tiles

\* C7 witness: a stratified draw in which a label's count is 2 away from
\* round(n * label_ratio)
C7_Witness ==
    /\ FirstStratifiedDraw
    /\ \E l \in 1..splitter.n_unique_labels :
          Abs(DrawnOfLabel(result.corresponding_indices, UniqueLabels[l])
                - RoundedTarget(l)) = 2

\* the time values along a sequence of row indices never decrease
TimeAscending(indices) ==
    \A a, b \in 1..Len(indices) :
        a < b => splitter.time_column[indices[a] + 1] <= splitter.time_column[indices[b] + 1]

\* the index arrays of the given draws, concatenated in order
Concatenated(draws) == HStack([k \in 1..Len(draws) |-> draws[k].indices])

\* C8 (as stated): in time series mode the drawn index sets, concatenated in
\* call order and then reversed, are in time-ascending order and hold no row
\* twice.
C8_ReversedConcatenationAscending ==
    (splitter.is_time_series /\ ~splitter.replace) =>
        /\ TimeAscending(Reverse(Concatenated(drawn)))
        /\ NoDuplicates(Concatenated(drawn))

\* the draws of the calls that asked for less than the pool held
PartialDraws == SelectSeq(drawn, LAMBDA d : ~d.whole)

\* C8 (amended): in time series mode every split with n below the pool size
\* returns its indices in time-ascending order, and the index sets of such
\* calls, each as returned, concatenated in reverse call order (last call
\* first) are in time-ascending order and hold no row twice.
C8_ReverseCallOrderAscending ==
    (splitter.is_time_series /\ ~splitter.replace) =>
        /\ TimeAscending(Concatenated(Reverse(PartialDraws)))
        /\ NoDuplicates(Concatenated(PartialDraws))

\* C8 witness: two time series splits below the pool size have drawn rows, the
\* second one a row of another time than the first
C8_Witness ==
    /\ splitter.is_time_series
    /\ Len(PartialDraws) = 2
    /\ \E i \in Range(PartialDraws[1].indices), j \in Range(PartialDraws[2].indices) :
          splitter.time_column[i + 1] # splitter.time_column[j + 1]

\* C9: a classification split(n) with n below the number of unique labels
\* fails with the insufficient-labels error and leaves the splitter as it
\* was, so a later split finds the state the failed call found.
C9_InsufficientLabelsChangesNothing ==
    [][(call'.op = "split" /\ IsClassification(splitter)
            /\ ~IsNone(splitter, "label_indices_list_in_use")
            /\ ToCount(call'.n, splitter.n_data) < splitter.n_unique_labels) =>
        /\ result'.status = "InsufficientLabels"
        /\ splitter' = splitter]_vars

\* C9 witness: a split failed with the insufficient-labels error after an
\* earlier split had drawn from the pools
C9_Witness ==
    /\ call.op = "split"
    /\ result.status = "InsufficientLabels"
    /\ Len(drawn) >= 1
    /\ Len(splitter.remained_indices) < splitter.n_data

\* the row numbers of a part, and the agreement of its three snapshots
SameIndexSequence(part) ==
    part.raw = part.converted /\ part.converted = part.processed

AllRows == Range(tabular.raw)

\* C10 (as stated): the two parts TabularData.split returns are disjoint and
\* together hold every row exactly once, and within each part the three
\* snapshots are taken with the same index sequence.
C10_PartsPartitionRows ==
    parts.status = "ok" =>
        /\ Range(parts.p1.raw) \cap Range(parts.p2.raw) = {}
        /\ Range(parts.p1.raw) \cup Range(parts.p2.raw) = AllRows
        /\ NoDuplicates(parts.p1.raw) /\ NoDuplicates(parts.p2.raw)
        /\ SameIndexSequence(parts.p1) /\ SameIndexSequence(parts.p2)

\* C10 (amended): the two parts together hold every row, neither holds a row
\* twice, and within each part the three snapshots are taken with the same
\* index sequence; the parts are disjoint for a regression task, while for a
\* classification task a row is in both parts only if the second part holds
\* every row of its label (the stratified split kept that label's pool).
C10_PartsCoverRows ==
    parts.status = "ok" =>
        /\ Range(parts.p1.raw) \cup Range(parts.p2.raw) = AllRows
        /\ NoDuplicates(parts.p1.raw) /\ NoDuplicates(parts.p2.raw)
        /\ SameIndexSequence(parts.p1) /\ SameIndexSequence(parts.p2)
        /\ tabular.is_regression => Range(parts.p1.raw) \cap Range(parts.p2.raw) = {}
        /\ \A i \in Range(parts.p1.raw) \cap Range(parts.p2.raw) :
              \A j \in AllRows :
                  tabular.y[j + 1] = tabular.y[i + 1] => j \in Range(parts.p2.raw)

\* C10 witness: a split of classification data returned two non-empty parts
\* with a row in common
C10_Witness ==
    /\ parts.status = "ok"
    /\ ~tabular.is_regression
    /\ Range(parts.p1.raw) \cap Range(parts.p2.raw) # {}
    /\ Range(parts.p1.raw) # AllRows

\* no two of the index lists have an index in common
PairwiseDisjoint(list) ==
    \A a, b \in 1..Len(list) : a < b => Range(list[a]) \cap Range(list[b]) = {}

\* the unique time values of the fitted dataset, most recent first: the order
\* of the per-time lists
UniqueTimes == Reverse(SortedSeq(Range(splitter.time_column)))

\* C11: in classification and time series modes the in-use per-label
\* (per-time) index lists are pairwise disjoint, each holds only rows of its
\* own label (time value), and their concatenation is remained_indices, after
\* fit, after every reset and after every split (whether it returned or
\* raised).
C11_ListsPartitionPool ==
    /\ (IsClassification(splitter) /\ ~IsNone(splitter, "label_indices_list_in_use")) =>
          LET in_use == splitter.label_indices_list_in_use
          IN  /\ Len(in_use) = Len(UniqueLabels)
              /\ PairwiseDisjoint(in_use)
              /\ \A l \in 1..Len(in_use) : \A i \in Range(in_use[l]) :
                    splitter.y[i + 1] = UniqueLabels[l]
              /\ HStack(in_use) = splitter.remained_indices
    /\ (splitter.is_time_series /\ ~IsNone(splitter, "time_indices_list_in_use")) =>
          LET in_use == splitter.time_indices_list_in_use
              gone == Len(splitter.time_indices_list) - Len(in_use)
          IN  /\ gone >= 0
              /\ PairwiseDisjoint(in_use)
              /\ \A k \in 1..Len(in_use) : \A i \in Range(in_use[k]) :
                    splitter.time_column[i + 1] = UniqueTimes[k + gone]
              /\ HStack(in_use) = splitter.remained_indices

\* the index array holds every row index of the fitted dataset exactly once
HoldsEveryRowOnce(indices, self) ==
    Len(indices) = self.n_data /\ Range(indices) = 0..(self.n_data - 1)

\* the states fit leaves a splitter of this configuration in, on the dataset
\* this splitter is fitted on
AfterFit(self) ==
    {o.self : o \in fit(NewSplitter(self.is_time_series, self.shuffle, self.replace),
                        [is_regression |-> self.is_regression, y |-> self.y,
                         time_column |-> self.time_column])}

\* fit returns on the dataset this splitter is fitted on
FitReturns(self) ==
    \A o \in fit(NewSplitter(self.is_time_series, self.shuffle, self.replace),
                  [is_regression |-> self.is_regression, y |-> self.y,
                   time_column |-> self.time_column]) : o.status = "ok"

\* C12: reset(), after any sequence of splits, rebuilds the pools so that they
\* hold every row index of the fitted dataset exactly once; with shuffle=False
\* (on a splitter whose fit returned) the remained indices, the in-use lists
\* and the in-use cumulative counts are those right after fit.
C12_ResetRebuildsPools ==
    [][call'.op = "reset" =>
        /\ result'.status = "ok"
        /\ HoldsEveryRowOnce(splitter'.remained_indices, splitter')
        /\ IsClassification(splitter) =>
              HoldsEveryRowOnce(HStack(splitter'.label_indices_list_in_use), splitter')
        /\ splitter.is_time_series =>
              HoldsEveryRowOnce(HStack(splitter'.time_indices_list_in_use), splitter')
        /\ (~splitter.shuffle /\ FitReturns(splitter)) =>
              \A s \in AfterFit(splitter) :
                  /\ splitter'.remained_indices = s.remained_indices
                  /\ splitter'.label_indices_list_in_use = s.label_indices_list_in_use
                  /\ splitter'.time_indices_list_in_use = s.time_indices_list_in_use
                  /\ splitter'.times_counts_cumsum_in_use = s.times_counts_cumsum_in_use
                  /\ splitter'.none = s.none]_vars

\* C12 witness: an unshuffled time series splitter was reset after splits had
\* drawn from its pool, and holds its whole pool again
C12_Witness ==
    /\ call.op = "reset"
    /\ splitter.is_time_series
    /\ ~splitter.shuffle
    /\ call.pool < splitter.n_data
    /\ Len(splitter.remained_indices) = splitter.n_data

\* C13: with replace=True (regression or classification) the pool holds every
\* row index exactly once after any sequence of split calls, and a split(n)
\* with n below the pool size that returns a result returns exactly n indices.
C13_ReplaceKeepsPool ==
    (splitter.replace /\ ~IsNone(splitter, "remained_indices")) =>
        /\ HoldsEveryRowOnce(splitter.remained_indices, splitter)
        /\ (SplitReturnedResult /\ ~WholePoolRequested) =>
              Len(result.corresponding_indices) = Requested

\* C13 witness: a split with replacement on an unshuffled splitter returned
\* fewer indices than the pool holds and left the pool in a new order
C13_Witness ==
    /\ SplitReturnedResult
    /\ splitter.replace
    /\ ~splitter.shuffle
    /\ ~WholePoolRequested
    /\ Len(result.corresponding_indices) >= 1
    /\ splitter.remained_indices # Arange(splitter.n_data)

\* the n_list of the last split_multiple call holds a value below 1 and a
\* value above 1
MixesBelowAndAboveOne(n_list) ==
    /\ \E k \in 1..Len(n_list) : NBelowOne(n_list[k])
    /\ \E k \in 1..Len(n_list) : ~NLeqOne(n_list[k])

\* the statuses of the configuration errors of split_multiple
ConfigErrors == {"SomeButNotAllBelowOne", "SumAboveOne", "SumIsOneWithRemained"}

\* C14: split_multiple fails with a configuration error when (a) the list
\* mixes values below 1 with values above 1, (b) all values are fractions
\* (none above 1) whose sum exceeds 1, or (c) the fractions sum to exactly 1
\* while return_remained=True; the error is raised before any split is
\* performed, so the splitter is unchanged.
C14_ConfigErrorsBeforeAnySplit ==
    [][call'.op = "split_multiple" =>
        LET n_list == multi'.n_list
            all_fractions == \A k \in 1..Len(n_list) : NLeqOne(n_list[k])
            ratio_sum == NSum(n_list)
        IN  (\/ MixesBelowAndAboveOne(n_list)
             \/ all_fractions /\ ratio_sum.num > ratio_sum.den
             \/ all_fractions /\ ratio_sum.num = ratio_sum.den /\ multi'.return_remained) =>
                /\ multi'.status \in ConfigErrors
                /\ multi'.results = <<>>
                /\ splitter' = splitter]_vars

\* C14 witness: split_multiple was called with fractions that sum to exactly 1
\* and return_remained=True, and raised
C14_Witness ==
    /\ call.op = "split_multiple"
    /\ Len(multi.n_list) = 2
    /\ multi.return_remained
    /\ NSum(multi.n_list).num = NSum(multi.n_list).den
    /\ multi.status = "SumIsOneWithRemained"

\* the contiguous range of the given length starting at start
Contiguous(start, length) == [i \in 1..length |-> start + i - 1]

\* C15: at every position of a chain of processors, each built with the
\* ordered list of its predecessors, input_indices is the contiguous range of
\* length input_dim starting at the sum of the predecessors' input_dim, and
\* output_indices the contiguous range of length output_dim starting at the
\* sum of the predecessors' output_dim.
C15_OffsetsAreSumsOfPredecessors ==
    \A k \in 1..Len(chain) :
        LET predecessors == SubSeq(chain, 1, k - 1)
            inputs == SumSeq([j \in 1..(k - 1) |-> input_dim(chain[j])])
            outputs == SumSeq([j \in 1..(k - 1) |-> output_dim(chain[j])])
        IN  /\ chain[k].previous_processors = predecessors
            /\ input_indices(chain[k]) = Contiguous(inputs, input_dim(chain[k]))
            /\ output_indices(chain[k]) = Contiguous(outputs, output_dim(chain[k]))

\* C15 witness: the third processor of a chain whose first two differ in
\* input_dim and output_dim takes two columns and gives two
C15_Witness ==
    /\ Len(chain) = 3
    /\ input_dim(chain[1]) + input_dim(chain[2]) = 3
    /\ output_dim(chain[1]) + output_dim(chain[2]) = 1
    /\ input_indices(chain[3]) = <<3, 4>>
    /\ output_indices(chain[3]) = <<1, 2>>

\* the input column blocks of the processors a fit created, left to right
Blocks(self) ==
    LET placed == Placed(self.processors, 0)
    IN  [k \in 1..Len(placed) |-> placed[k].input_indices]

\* C16: once a fit has placed its processors, for any exclusion set and any
\* input_dim values, the processors' input column blocks lie within the width
\* of the converted matrix and, taken left to right, are disjoint and cover
\* every converted column exactly once; no excluded raw column has a processor.
C16_BlocksTileConvertedMatrix ==
    data.status # "none" =>
        LET blocks == Blocks(data)
            width == Len(data.converted.x)
        IN  /\ \A k \in 1..Len(blocks) : \A c \in Range(blocks[k]) : c < width
            /\ HStack(blocks) = Arange(width)
            /\ DOMAIN data.processors \cap data.excludes = {}

\* a step in which a fitted TabularData transforms new data
TransformStep == data.status = "ok" /\ out'.op = "transform" /\ out' # out

C18_LastColumnForcedValid ==
    data.status # "none" =>
        LET last == raw_dim(data) - 1
        IN  /\ (\A i \in 0..(last - 1) : i \in data.raw.invalid) =>
                /\ data.recognizers[last].force_valid
                /\ data.recognizers[last].is_valid
                /\ last \notin data.excludes
            /\ data.excludes # 0..last
            /\ data.converted.x # <<>>
            /\ data.status = "ok" =>
                /\ data.processed.x # <<>>
                /\ \A k \in 1..Len(data.processed.x) :
                       output_dim(data.processed.x[k].processor) >= 1

\* C19: a processor reconstructed by loads from the value dumps_ produced and
\* a supplied live list of preceding processors has the identifier, config and
\* caches of the original, and its preceding processors (hence its offsets)
\* are the supplied list: the dumped value carries no preceding processors.
C19_LoadsTakesSuppliedPredecessors ==
    loaded.status = "ok" =>
        LET original == chain[loaded.position]
            processor == loaded.processor
            supplied == loaded.supplied.value
            inputs == SumSeq([j \in 1..Len(supplied) |-> input_dim(supplied[j])])
            outputs == SumSeq([j \in 1..Len(supplied) |-> output_dim(supplied[j])])
        IN  /\ processor.identifier = original.identifier
            /\ processor.config = original.config
            /\ processor.caches = original.caches
            /\ processor.previous_processors = supplied
            /\ input_indices(processor) = Contiguous(inputs, input_dim(processor))
            /\ output_indices(processor) = Contiguous(outputs, output_dim(processor))

\* C20: recover_labels applies the label processor's recover and then the
\* label converter's, each the inverse of its forward map, so that
\* recover_labels of the processed labels of the fitted data gives the original
\* label values.
C20_RecoverLabelsGivesOriginalLabels ==
    out.op = "recover_labels" => out.labels = data.raw.y

\* a classification splitter (no time series configuration) fitted on labels
\* that have a single unique value
SingleLabel(self) ==
    /\ self.fitted
    /\ IsNone(self, "time_column")
    /\ ~self.is_regression
    /\ Cardinality(Range(self.y)) = 1

\* C21: on a classification splitter fitted on labels with a single unique
\* value, fit and every reset fail with the invalid-data error, and no split
\* returns a result.
C21_SingleLabelIsFatal ==
    SingleLabel(splitter) =>
        /\ call.op \in {"fit", "reset"} => result.status = "InvalidData"
        /\ call.op = "split" => result.status # "ok"

\* the number of indices the first k draws returned
\* a fitted regression splitter without shuffling and without replacement
TailSplitter(self) ==
    /\ self.fitted
    /\ IsNone(self, "time_column")
    /\ self.is_regression
    /\ ~self.shuffle
    /\ ~self.replace

\* a fit or reset of such a splitter over N rows leaves the pool 0 .. N - 1,
\* and a split(n), n an integer with 1 <= n below the size m of a pool
\* 0 .. m - 1, returns m - n .. m - 1 in ascending order and leaves the pool
\* 0 .. m - n - 1
TailStep ==
    /\ (TailSplitter(splitter') /\ call'.op \in {"fit", "reset"}
            /\ result'.status = "ok") =>
        splitter'.remained_indices = Arange(splitter'.n_data)
    /\ (/\ TailSplitter(splitter)
        /\ call'.op = "split"
        /\ call'.n.den = 1
        /\ call'.n.num >= 1
        /\ splitter.remained_indices = Arange(Len(splitter.remained_indices))
        /\ call'.n.num < Len(splitter.remained_indices)) =>
        LET m == Len(splitter.remained_indices)
            n == call'.n.num
        IN  /\ result'.status = "ok"
            /\ result'.corresponding_indices = [i \in 1..n |-> m - n + i - 1]
            /\ splitter'.remained_indices = Arange(m - n)

\* C24: on a regression splitter without shuffling and without replacement,
\* after a fit or reset over N rows and successive splits of n_1, ..., n_k
\* rows (integers, each at least 1) with n_1 + ... + n_k < N, the k-th split
\* returned the indices N - (n_1 + ... + n_k) .. N - (n_1 + ... + n_(k-1)) - 1
\* in ascending order and the pool is 0 .. N - (n_1 + ... + n_k) - 1: each
\* call finds the pool 0 .. m - 1 its predecessors left, m = N - (n_1 + ... +
\* n_(k-1)), and takes its tail.
C24_SuccessiveSplitsTakeTheTail == [][TailStep]_vars

\* C24 witness: over 3 rows split(1) and then split(1) have returned row 2
\* and then row 1, and row 0 is left
C24_Witness ==
    /\ IsNone(splitter, "time_column")
    /\ splitter.is_regression
    /\ ~splitter.shuffle
    /\ ~splitter.replace
    /\ splitter.n_data = 3
    /\ Len(drawn) = 2
    /\ drawn[1] = [indices |-> <<2>>, whole |-> FALSE]
    /\ drawn[2] = [indices |-> <<1>>, whole |-> FALSE]
    /\ call = [op |-> "split", n |-> Count(1), pool |-> 2]
    /\ splitter.remained_indices = <<0>>

\* C25: on a splitter with a time series configuration, whatever the task
\* type of the dataset it was fitted on, no split fails for want of a reset:
\* fit has prepared what split looks for.
C25_TimeSeriesSplitWhateverTaskType ==
    (splitter.is_time_series /\ splitter.fitted /\ call.op = "split") =>
        result.status # "NotReset"

\* C27: in every SplitResult the i-th row of the returned dataset is the row
\* of the fitted dataset at corresponding_indices[i], also when the whole
\* remaining pool is returned.
C27_DatasetRowsMatchIndices ==
    (call.op = "split" /\ result.status = "ok") =>
        result.dataset = result.corresponding_indices

\* C29: a split_multiple call that returns gives as many results as n_list
\* has sizes when return_remained is False and one more, the remainder, when it
\* is True, for a list of fractions and for a list of counts.
C29_OneResultPerSize ==
    multi.status = "ok" =>
        Len(multi.results) =
            Len(multi.n_list) + (IF multi.return_remained THEN 1 ELSE 0)

\* C30: on a classification splitter without replacement, once fit or reset
\* has built the pools, after any sequence of splits every label's in-use pool
\* holds at least min(2, its initial size) indices, and the remained pool is
\* not empty.
C30_LabelPoolsKeepTwo ==
    (/\ splitter.fitted
     /\ IsNone(splitter, "time_column")
     /\ ~splitter.is_regression
     /\ ~splitter.replace
     /\ ~IsNone(splitter, "label_indices_list_in_use")) =>
        /\ Len(splitter.label_indices_list_in_use) = Len(splitter.label_indices_list)
        /\ \A l \in 1..Len(splitter.label_indices_list) :
               Len(splitter.label_indices_list_in_use[l])
                   >= Min(2, Len(splitter.label_indices_list[l]))
        /\ splitter.remained_indices # <<>>

\* C30 witness: three splits have taken a label's pool of 4 rows down to 2
\* while the other label's pool of 2 rows was kept whole
C30_Witness ==
    /\ ~IsNone(splitter, "label_indices_list_in_use")
    /\ ~splitter.replace
    /\ Len(drawn) = 3
    /\ Len(splitter.label_indices_list) = 2
    /\ Len(splitter.label_indices_list[1]) = 4
    /\ Len(splitter.label_indices_list[2]) = 2
    /\ Len(splitter.label_indices_list_in_use[1]) = 2
    /\ Len(splitter.label_indices_list_in_use[2]) = 2

\* C23: constructing a DataSplitter with a time series configuration and
\* replace=True fails with the configuration error, so that no splitter that
\* is fitted or splits has both a time series configuration and replace=True.
C23_NoTimeSeriesWithReplacement ==
    /\ \A time_series_config \in TimeSeriesConfigs \ {NoTimeSeries}, shuffle \in BOOLEAN :
           init(time_series_config, shuffle, TRUE).status = "ReplaceWithTimeSeries"
    /\ Constructed => ~(splitter.is_time_series /\ splitter.replace)

\* C23 witness: a constructor was given a time series configuration and
\* replace=True, and raised the configuration error
C23_Witness ==
    /\ call.op = "init"
    /\ result.status = "ReplaceWithTimeSeries"
    /\ ~splitter.fitted

\* the pools an unshuffled splitter holds describe the rows of the dataset it
\* was fitted with last: the remained pool holds each row once, and the
\* per-label lists with their counts, or the per-time lists with their
\* cumulative counts, are those gathered from its labels or its time column
PoolsOfFittedDataset(self) ==
    /\ Len(self.remained_indices) = self.n_data
    /\ Range(self.remained_indices) = 0..(self.n_data - 1)
    /\ (~self.is_time_series /\ ~self.is_regression) =>
        LET unique_indices == GetUniqueIndices(self.y)
        IN  /\ self.label_indices_list = unique_indices.split_indices
            /\ self.label_indices_list_in_use = unique_indices.split_indices
            /\ self.label_counts = unique_indices.counts
            /\ self.n_samples = Len(self.y)
            /\ self.n_unique_labels = Len(unique_indices.unique)
    /\ self.is_time_series =>
        LET unique_indices == GetUniqueIndices(self.time_column)
        IN  /\ self.time_indices_list = Reverse(unique_indices.split_indices)
            /\ self.time_indices_list_in_use = Reverse(unique_indices.split_indices)
            /\ self.times_counts_cumsum = Cumsum(Reverse(unique_indices.counts))
            /\ self.times_counts_cumsum_in_use = self.times_counts_cumsum

\* C26: after fit returns, on a fresh splitter or on one fitted before, every
\* pool of the splitter is rebuilt from the dataset given to this fit.
C26_FitRebuildsAllPools ==
    (call.op = "fit" /\ result.status = "ok") => PoolsOfFittedDataset(splitter)

\* C28: the index arrays of a SplitResult a caller keeps have, after every
\* later split and reset, the values they had when the split returned them.
C28_EarlierResultsUnchanged ==
    held.status = "held" =>
        /\ held.corresponding_indices = held.returned.corresponding_indices
        /\ held.remaining_indices = held.returned.remaining_indices

\* C22: process on a processor constructed with inplace=False, and recover
\* called with inplace=False, leave the caller's array with the values it was
\* given with.
C22_CallerArrayUntouched ==
    (arrays.op \in {"process", "recover"} /\ ~arrays.inplace) =>
        arrays.columns = arrays.given

\* C22 witness: a processor constructed with inplace=False has processed an
\* array of two columns, returned other values and left the array as given
C22_Witness ==
    /\ arrays.op = "process"
    /\ ~arrays.inplace
    /\ ~chain[1].inplace
    /\ Len(arrays.given) = 2
    /\ arrays.returned # arrays.given
    /\ arrays.columns = arrays.given

\* the sizes of the time groups in use, most recent time first
GroupSizes(self) ==
    [i \in 1..Len(self.time_indices_list_in_use) |->
        Len(self.time_indices_list_in_use[i])]

\* C31: on a fitted time series splitter, after every reset and every split,
\* the cumulative counts in use have one entry per time group in use, the
\* i-th entry is the number of indices in the first i groups in use (most
\* recent time first), and the last entry is the size of the pool.
C31_CumsumFollowsGroupsInUse ==
    (splitter.fitted /\ splitter.is_time_series
        /\ ~IsNone(splitter, "time_indices_list_in_use")) =>
        LET cumsum == splitter.times_counts_cumsum_in_use
        IN  /\ Len(cumsum) = Len(splitter.time_indices_list_in_use)
            /\ cumsum = Cumsum(GroupSizes(splitter))
            /\ cumsum # <<>> => cumsum[Len(cumsum)] = Len(splitter.remained_indices)

====
